---- MODULE Spec2Model ----
(***************************************************************************)
(* STRATUM-0 adversarial integrity monitor: the tick engine of App.tsx     *)
(* (load generator, router, admission control, execution model, metrics,   *)
(* auto-advance), the trace recorder / replayer and the advisory           *)
(* callbacks, as a state machine.                                          *)
(*                                                                         *)
(* App.tsx holds two revisions of the component.  The model follows the    *)
(* later one (lines 363-870); where the earlier one (lines 1-361) differs  *)
(* the difference is noted at the definition.                              *)
(*                                                                         *)
(* Numbers: wall-clock time is in integer milliseconds; Date.now() is one  *)
(* value for the whole of a synchronous handler.  The service threshold    *)
(* complexity * overheadMultiplier * (100 / cpuBudget) is compared in      *)
(* exact arithmetic after clearing denominators.  integrityScore is kept   *)
(* in tenths (integrityScore * 10).                                        *)
(***************************************************************************)
EXTENDS Integers, Sequences, FiniteSets, TLC

(***************************************************************************)
(* Program constants.                                                      *)
(***************************************************************************)
TICKS_PER_PHASE == 30

AUTOPILOT_INTERVAL == 10

\* tickRef.current % 50 === 0 gates the pathological-input request.
PATHOLOGICAL_PERIOD == 50

\* complexity > 70 routes to PRIMARY_PRO.
ROUTER_THRESHOLD == 70

\* count += 25 on every fifth tick of ADVERSARIAL_LOAD_SHAPE.
BURST_EXTRA == 25

BURST_PERIOD == 5

\* count += 8 on every tick of ZERO_ERROR_AUDIT.
AUDIT_EXTRA == 8

\* prev.slice(-100) keeps the last 100 snapshots before the new one is added.
HISTORY_KEEP == 100

\* .slice(0, 30) of the decision log.
DECISION_LOG_CAP == 30

\* Object.values(SimulationPhase), in declaration order.
Phases ==
  << "BASE", "ENTROPIC_ESCAPE_REMOVAL", "CONSTRAINT_COMPRESSION",
     "ADVERSARIAL_LOAD_SHAPE", "OBSERVATION_COLLAPSE", "ZERO_ERROR_AUDIT" >>

PHASE_2 == "CONSTRAINT_COMPRESSION"

PHASE_3 == "ADVERSARIAL_LOAD_SHAPE"

PHASE_5 == "ZERO_ERROR_AUDIT"

\* phases.indexOf(p), 1-based.
PhaseIndex(p) == CHOOSE i \in 1..Len(Phases) : Phases[i] = p

INITIAL_CONFIG ==
  [ cpuBudget          |-> 100,
    latencyHardCeiling |-> 500,
    concurrencyLimit   |-> 20,
    retriesEnabled     |-> TRUE,
    isAccelerated      |-> FALSE,
    isAutoAdvancing    |-> TRUE,
    phaseTickCounter   |-> 0,
    isRecording        |-> FALSE,
    isReplaying        |-> FALSE,
    isAutopilot        |-> FALSE,
    isSelfHealing      |-> TRUE,
    activeTraceId      |-> 0 ]

\* { ...prev, ...partial }
Merge(prev, partial) ==
  [ f \in DOMAIN prev |-> IF f \in DOMAIN partial THEN partial[f] ELSE prev[f] ]

\* The configuration each phase imposes on entry: the switch of the phase effect
\* of the earlier revision.  The later revision has no such effect.
PhaseDeltas(ph) ==
  CASE ph = "BASE" ->
         [ cpuBudget |-> 100, latencyHardCeiling |-> 500, concurrencyLimit |-> 20,
           retriesEnabled |-> TRUE ]
    [] ph = "ENTROPIC_ESCAPE_REMOVAL" -> [ retriesEnabled |-> FALSE ]
    [] ph = PHASE_2 ->
         [ cpuBudget |-> 50, latencyHardCeiling |-> 150, concurrencyLimit |-> 15 ]
    [] ph = PHASE_5 ->
         [ cpuBudget |-> 30, latencyHardCeiling |-> 80, concurrencyLimit |-> 10 ]
    [] OTHER -> << >>

\* activeTraceDataRef.current === null
NoTrace == [ id |-> 0, phase |-> "BASE", integrityScore |-> 0, data |-> << >> ]

(***************************************************************************)
(* Bounds of the exploration.                                              *)
(***************************************************************************)
\* Clock firings in one behaviour of the engine and admission specifications.
MaxTicks == 2

\* User interactions (phase buttons, sliders, toggles) in one behaviour.
MaxUserOps == 2

\* Clock firings in one behaviour of the trace specification.
MaxTraceTicks == 5

\* Calls of startRecording, stopRecordingAndSave and startReplay in one behaviour.
MaxTraceOps == 3

MaxAdvisoryTicks == 11

MaxLongTicks == 32

MaxLongOps == 1

MaxPilotTicks == 11

MaxPilotOps == 4

MaxSessionTicks == 2

MaxSessionTraceOps == 2

MaxHistoryTicks == 104

MaxFailureTicks == 51

MaxDecisionTicks == 110

\* Firings of the clock in the injection specification: the pathological request
\* of tick 50 and one tick after it; its trace handler calls; and the last
\* firing a recording may be stopped after.
MaxInjectionTicks == 51

MaxInjectionTraceOps == 3

MaxInjectionRecorded == 2

\* Firings of the clock in the cadence specification, two autopilot intervals,
\* and its trace handler calls.
MaxCadenceTicks == 20

MaxCadenceTraceOps == 3

\* Firings of the clock in the liveness specification, the first of them with
\* arrivals, and its slider moves.
MaxLiveTicks == 12

MaxLiveArrivalTicks == 3

MaxLiveOps == 3

VARIABLES
  phase,               \* useState phase
  config,              \* useState config
  history,             \* useState history: sequence of SystemMetrics
  taskQueueRef,        \* useRef taskQueueRef: sequence of Task
  tickRef,             \* useRef tickRef
  currentTraceRef,     \* useRef currentTraceRef: sequence of TickTrace
  activeTraceDataRef,  \* useRef activeTraceDataRef: TraceRecord or NoTrace
  lastAutopilotTick,   \* useRef lastAutopilotTick
  traces,              \* useState traces: sequence of TraceRecord, newest first
  decisionLog,         \* useState decisionLog: sequence of action names
  now,                 \* Date.now()
  inflight,            \* advisory calls awaiting their result
  obs,                 \* observation of the last tick or trace handler that ran
  session,             \* observation of the recording session, of the phase steps
                       \* the driving rules took since the last tick began, and
                       \* of the ticks run with the autopilot on since its last call
  budget               \* clock firings and user interactions so far

\* The program's state with its observations; budget only counts handlers.
prog ==
  << phase, config, history, taskQueueRef, tickRef, currentTraceRef,
     activeTraceDataRef, lastAutopilotTick, traces, decisionLog, now,
     inflight, obs, session >>

vars == << prog, budget >>

(***************************************************************************)
(* Helpers (Array.prototype.filter / slice / reduce, Math.max).            *)
(***************************************************************************)
RECURSIVE SumErrors(_)
\* history.reduce((acc, curr) => acc + curr.errorCount, 0)
SumErrors(h) == IF h = << >> THEN 0 ELSE h[1].errorCount + SumErrors(Tail(h))

Max(a, b) == IF a >= b THEN a ELSE b

\* Math.max(0, 100 - sum / 10), in tenths.
IntegrityScore(h) == Max(0, 1000 - SumErrors(h))

\* The history kept whole.
SliceLast_KeepsAll(s, n) == s

\* prev.slice(-n)
SliceLast(s, n) == IF Len(s) <= n THEN s ELSE SubSeq(s, Len(s) - n + 1, Len(s))

\* prev.slice(0, n)
SliceFirst(s, n) == IF Len(s) <= n THEN s ELSE SubSeq(s, 1, n)

IsExecuting(t) == t.status = "EXECUTING"

IsPending(t) == t.status = "PENDING"

\* The finished filter without the refused tasks.
IsTerminal_NotRefused(t) == t.status \in { "COMPLETED", "FAILED" }

\* t.status === 'COMPLETED' || t.status === 'REFUSED' || t.status === 'FAILED'
IsTerminal(t) == t.status \in { "COMPLETED", "REFUSED", "FAILED" }

IsRefused(t) == t.status = "REFUSED"

\* taskQueueRef.current.filter(t => t.status === 'EXECUTING').length
ExecutingCount(queue) == Len(SelectSeq(queue, IsExecuting))

(***************************************************************************)
(* Load generator.                                                         *)
(***************************************************************************)
\* The values Math.floor(Math.random() * 5), or Math.floor(Math.random() * 10) + 5
\* when accelerated, can take.
CountRange(cfg) == IF cfg.isAccelerated THEN 5..14 ELSE 0..4

\* The arrival count of a generated tick: the random draw plus the phase's extra load.
LoadCount(count, ph, tick) ==
  IF ph = PHASE_3
    THEN (IF tick % BURST_PERIOD = 0 THEN count + BURST_EXTRA ELSE count)
    ELSE IF ph = PHASE_5 THEN count + AUDIT_EXTRA ELSE count

\* Array.from({ length: n }).map((_, i) => ({ id: `T-${tick}-${i}`, complexity }));
\* the random complexities are the input pat, indexed by i.
Generate(n, pat, tick) ==
  [ i \in 1..n |->
      [ id |-> << "T", tick, i - 1 >>,
        complexity |-> pat[((i - 1) % Len(pat)) + 1] ] ]

\* The lookup reading the entry recorded one tick earlier.
ReplayMatches_OffByOne(data, tick) == { i \in 1..Len(data) : data[i].tick + 1 = tick }

\* activeTraceDataRef.current.data.find(d => d.tick === tickRef.current): the
\* indices of the matching entries; find returns the first.
ReplayMatches(data, tick) == { i \in 1..Len(data) : data[i].tick = tick }

ReplayFound(data, tick) == ReplayMatches(data, tick) /= {}

ReplayStep(data, tick) ==
  data[CHOOSE i \in ReplayMatches(data, tick) :
         \A j \in ReplayMatches(data, tick) : i <= j]

\* The end-of-replay test of the earlier revision, which requires a non-empty trace.
ReplayExhausted_NonEmpty(data, tick) == tick > Len(data) /\ Len(data) > 0

\* else if (tickRef.current > activeTraceDataRef.current.data.length): end of replay.
\* (The earlier revision also requires data.length > 0.)
ReplayExhausted(data, tick) == tick > Len(data)

(***************************************************************************)
(* Router.                                                                 *)
(***************************************************************************)
\* The router with the boundary complexity sent to the primary node.
AssignNode_AtThreshold(complexity) ==
  IF complexity >= ROUTER_THRESHOLD THEN "PRIMARY_PRO" ELSE "EDGE_FLASH"

AssignNode(complexity) ==
  IF complexity > ROUTER_THRESHOLD THEN "PRIMARY_PRO" ELSE "EDGE_FLASH"

NewTask(inc, t) ==
  [ id           |-> inc.id,
    complexity   |-> inc.complexity,
    startTime    |-> t,
    status       |-> "PENDING",
    assignedNode |-> AssignNode(inc.complexity) ]

(***************************************************************************)
(* Admission control: every PENDING task is decided against the number of *)
(* EXECUTING tasks counted before the pass.                                *)
(***************************************************************************)
AdmitTask(task, activeLen, cfg) ==
  IF ~IsPending(task) THEN task
  ELSE IF activeLen >= cfg.concurrencyLimit
    THEN (IF ~cfg.retriesEnabled THEN [task EXCEPT !.status = "REFUSED"] ELSE task)
    ELSE [task EXCEPT !.status = "EXECUTING"]

\* The admission pass counting every queued task as active.
Admission_CountsQueued(queue, cfg) ==
  [ i \in 1..Len(queue) |-> AdmitTask(queue[i], Len(queue), cfg) ]

\* The admission pass counting the tasks it has promoted: a PENDING task is
\* decided against the EXECUTING tasks and the PENDING tasks ahead of it.
Admission_Sequential(queue, cfg) ==
  LET ahead(i) ==
        ExecutingCount(queue)
          + Cardinality({ j \in 1..(i - 1) : IsPending(queue[j]) })
  IN  [ i \in 1..Len(queue) |-> AdmitTask(queue[i], ahead(i), cfg) ]

Admission(queue, cfg) ==
  LET activeLen == ExecutingCount(queue)
  IN  [ i \in 1..Len(queue) |-> AdmitTask(queue[i], activeLen, cfg) ]

(***************************************************************************)
(* Execution model.                                                        *)
(***************************************************************************)
\* overheadMultiplier, times 10.
OverheadMultiplier10(node) == IF node = "PRIMARY_PRO" THEN 12 ELSE 8

\* The completion test with a duration equal to the threshold counted as past it.
ServiceExceeded_Inclusive(duration, task, cfg) ==
  duration * cfg.cpuBudget * 10
    >= task.complexity * OverheadMultiplier10(task.assignedNode) * 100

\* duration > complexity * overheadMultiplier * (100 / cpuBudget)
ServiceExceeded(duration, task, cfg) ==
  duration * cfg.cpuBudget * 10
    > task.complexity * OverheadMultiplier10(task.assignedNode) * 100

\* The classification with CONSTRAINT_COMPRESSION left out.
CeilingIsInvariant_AuditOnly(ph) == ph = PHASE_5

\* phase === PHASE_2 || phase === PHASE_5
CeilingIsInvariant(ph) == ph = PHASE_2 \/ ph = PHASE_5

\* The execution pass sending a task past the ceiling back to the line.
ExecuteTask_Requeues(task, t, cfg, ph) ==
  LET duration == t - task.startTime
  IN  IF ~IsExecuting(task) THEN task
      ELSE IF duration > cfg.latencyHardCeiling
        THEN [task EXCEPT !.status = "PENDING", !.startTime = t]
      ELSE IF ServiceExceeded(duration, task, cfg)
        THEN [task EXCEPT !.status = "COMPLETED"]
      ELSE task

ExecuteTask(task, t, cfg, ph) ==
  LET duration == t - task.startTime
  IN  IF ~IsExecuting(task) THEN task
      ELSE IF duration > cfg.latencyHardCeiling
        THEN (IF CeilingIsInvariant(ph)
                THEN [task EXCEPT !.status = "REFUSED"]
                ELSE [task EXCEPT !.status = "FAILED"])
      ELSE IF ServiceExceeded(duration, task, cfg)
        THEN [task EXCEPT !.status = "COMPLETED"]
      ELSE task

Execution(queue, t, cfg, ph) ==
  [ i \in 1..Len(queue) |-> ExecuteTask(queue[i], t, cfg, ph) ]

\* finishedIds, and the filter that removes every task whose id is among them.
FinishedIds(queue) ==
  LET finished == SelectSeq(queue, IsTerminal)
  IN  [ i \in 1..Len(finished) |-> finished[i].id ]

RemoveFinished(queue) ==
  LET ids == { FinishedIds(queue)[i] : i \in 1..Len(FinishedIds(queue)) }
  IN  SelectSeq(queue, LAMBDA t : t.id \notin ids)

\* refusalCount: refusals of the admission pass plus ceiling refusals of the
\* execution pass.  errorCount: FAILED marks of the execution pass.
RefusalCount(queued, admitted, executed) ==
  Cardinality({ i \in 1..Len(queued) :
    \/ (IsPending(queued[i]) /\ admitted[i].status = "REFUSED")
    \/ (IsExecuting(admitted[i]) /\ executed[i].status = "REFUSED") })

ErrorCount(admitted, executed) ==
  Cardinality({ i \in 1..Len(admitted) :
    IsExecuting(admitted[i]) /\ executed[i].status = "FAILED" })

(***************************************************************************)
(* Auto-advance: the setConfig updater of the tick and its setPhase.       *)
(***************************************************************************)
\* The threshold test firing one tick early.
AdvanceDue_Early(prev) == prev.phaseTickCounter + 2 >= TICKS_PER_PHASE

AdvanceDue(prev) == prev.phaseTickCounter + 1 >= TICKS_PER_PHASE

HasNextPhase(ph) == PhaseIndex(ph) < Len(Phases)

NextPhase(ph) == Phases[PhaseIndex(ph) + 1]

AutoAdvanceConfig(prev, ph) ==
  IF AdvanceDue(prev)
    THEN IF HasNextPhase(ph)
           THEN [prev EXCEPT !.phaseTickCounter = 0]
           ELSE [prev EXCEPT !.isAutoAdvancing = FALSE, !.phaseTickCounter = 0]
    ELSE [prev EXCEPT !.phaseTickCounter = prev.phaseTickCounter + 1]

\* The phase update wrapping from the last phase to the first.
AutoAdvancePhase_Wraps(prev, ph) ==
  IF AdvanceDue(prev)
    THEN (IF HasNextPhase(ph) THEN NextPhase(ph) ELSE Phases[1])
    ELSE ph

AutoAdvancePhase(prev, ph) ==
  IF AdvanceDue(prev) /\ HasNextPhase(ph) THEN NextPhase(ph) ELSE ph

\* if (config.isAutoAdvancing && !config.isAutopilot)
AutoAdvanceActive(cfg) == cfg.isAutoAdvancing /\ ~cfg.isAutopilot

(***************************************************************************)
(* Initial state: the component after its first render.                    *)
(***************************************************************************)
\* getAutopilotPolicy resolved to null (its catch branch).
NoPolicy == [ failed |-> TRUE ]

\* getAdversarialAnalysis resolved to null (its catch branch).
NoReport == [ failed |-> TRUE ]

\* What the last handler saw and did; policy and asked are the policy an
\* autopilot completion received and the phase and configuration of the render
\* its call was made in.
NoObs ==
  [ op |-> "init", tick |-> 0, phase |-> "BASE", cfg |-> INITIAL_CONFIG,
    replay |-> FALSE, exhausted |-> FALSE, incoming |-> << >>,
    queued |-> << >>, admitted |-> << >>, executed |-> << >>, at |-> 0, failed |-> FALSE,
    policy |-> NoPolicy, asked |-> [ phase |-> "BASE", config |-> INITIAL_CONFIG ] ]

Init ==
  /\ phase = "BASE"
  /\ config = INITIAL_CONFIG
  /\ history = << >>
  /\ taskQueueRef = << >>
  /\ tickRef = 0
  /\ currentTraceRef = << >>
  /\ activeTraceDataRef = NoTrace
  /\ lastAutopilotTick = 0
  /\ traces = << >>
  /\ decisionLog = << >>
  /\ now = 1
  /\ inflight = [ autopilot |-> << >>, audit |-> 0, patho |-> 0 ]
  /\ obs = NoObs
  /\ session = [ open |-> FALSE, gen |-> << >>, errors |-> 0, saved |-> << >>,
                 active |-> << >>, activeClean |-> FALSE, steps |-> 0,
                 before |-> "BASE", quiet |-> 0 ]
  /\ budget = [ ticks |-> 0, userOps |-> 0, traceOps |-> 0 ]

(***************************************************************************)
(* tick: one firing of the interval timer.  count and pat are the draws of *)
(* Math.random(), dt the wall-clock time since the previous handler.       *)
(***************************************************************************)
\* The closure autopilotStep() runs with: the state of the render the tick
\* belongs to, read again when the policy arrives.
AutopilotClosure(cfg, ph, h) ==
  [ phase           |-> ph,
    config          |-> cfg,
    isAutoAdvancing |-> cfg.isAutoAdvancing,
    isSelfHealing   |-> cfg.isSelfHealing,
    lastErrored     |-> (Len(h) > 0 /\ h[Len(h)].errorCount > 0) ]

\* config.isAutopilot && tickRef.current - lastAutopilotTick.current >= AUTOPILOT_INTERVAL
AutopilotDue(cfg, tick, last) ==
  cfg.isAutopilot /\ tick - last >= AUTOPILOT_INTERVAL

\* config.isAutopilot && tick % 50 === 0 && history.length > 0
\*   && history[history.length-1].errorCount === 0
PathologicalDue(cfg, tick, h) ==
  /\ cfg.isAutopilot
  /\ tick % PATHOLOGICAL_PERIOD = 0
  /\ Len(h) > 0
  /\ h[Len(h)].errorCount = 0

Tick(count, pat, dt) ==
  /\ count \in CountRange(config)
  /\ LET tick      == tickRef + 1
         t         == now + dt
         data      == activeTraceDataRef.data
         replaying == config.isReplaying /\ activeTraceDataRef /= NoTrace
         found     == replaying /\ ReplayFound(data, tick)
         exhausted == replaying /\ ~found /\ ReplayExhausted(data, tick)
         incoming  ==
           IF replaying
             THEN (IF found THEN ReplayStep(data, tick).incomingTasks ELSE << >>)
             ELSE Generate(LoadCount(count, phase, tick), pat, tick)
         newTasks  == [ i \in 1..Len(incoming) |-> NewTask(incoming[i], t) ]
         queued    == taskQueueRef \o newTasks
         admitted  == Admission(queued, config)
         executed  == Execution(admitted, t, config, phase)
         metrics   ==
           [ throughput   |-> Len(FinishedIds(executed)),
             refusalCount |-> RefusalCount(queued, admitted, executed),
             errorCount   |-> ErrorCount(admitted, executed),
             timestamp    |-> tick ]
         cfg1      == IF exhausted THEN [config EXCEPT !.isReplaying = FALSE]
                                   ELSE config
         callsAuto == AutopilotDue(config, tick, lastAutopilotTick)
     IN  /\ tickRef' = tick
         /\ now' = t
         /\ currentTraceRef' =
              IF ~replaying /\ config.isRecording
                THEN Append(currentTraceRef, [ tick |-> tick, incomingTasks |-> incoming ])
                ELSE currentTraceRef
         /\ taskQueueRef' = RemoveFinished(executed)
         /\ history' = Append(SliceLast(history, HISTORY_KEEP), metrics)
         /\ lastAutopilotTick' = IF callsAuto THEN tick ELSE lastAutopilotTick
         /\ inflight' =
              [ inflight EXCEPT
                  !.autopilot =
                    IF callsAuto
                      THEN Append(@, AutopilotClosure(config, phase, history))
                      ELSE @,
                  !.patho =
                    IF ~replaying /\ PathologicalDue(config, tick, history)
                      THEN @ + 1 ELSE @ ]
         /\ config' = IF AutoAdvanceActive(config)
                        THEN AutoAdvanceConfig(cfg1, phase) ELSE cfg1
         /\ phase' = IF AutoAdvanceActive(config)
                       THEN AutoAdvancePhase(cfg1, phase) ELSE phase
         /\ obs' = [ op |-> "tick", tick |-> tick, phase |-> phase, cfg |-> config,
                     replay |-> replaying, exhausted |-> exhausted,
                     incoming |-> incoming, queued |-> queued,
                     admitted |-> admitted, executed |-> executed, at |-> t,
                     failed |-> FALSE, policy |-> NoPolicy, asked |-> NoObs.asked ]
         /\ session' =
              [ session EXCEPT
                  !.gen = IF session.open THEN Append(@, incoming) ELSE @,
                  !.errors = IF session.open THEN @ + metrics.errorCount ELSE @,
                  !.steps = PhaseIndex(phase') - PhaseIndex(phase),
                  !.before = phase,
                  !.quiet = IF config.isAutopilot /\ ~callsAuto THEN @ + 1 ELSE 0 ]
         /\ UNCHANGED << activeTraceDataRef, traces, decisionLog >>

(***************************************************************************)
(* Trace recorder / replayer handlers.                                     *)
(***************************************************************************)
Seen(op) == [NoObs EXCEPT !.op = op, !.tick = tickRef, !.phase = phase,
                          !.cfg = config, !.at = now]

\* startRecording without its isReplaying: false.
StartRecording_KeepsReplaying ==
  /\ currentTraceRef' = << >>
  /\ config' = [config EXCEPT !.isRecording = TRUE]
  /\ tickRef' = 0
  /\ obs' = Seen("startRecording")
  /\ session' = [session EXCEPT !.open = TRUE, !.gen = << >>, !.errors = 0]
  /\ UNCHANGED << phase, history, taskQueueRef, activeTraceDataRef,
                  lastAutopilotTick, traces, decisionLog, now, inflight >>

StartRecording ==
  /\ currentTraceRef' = << >>
  /\ config' = [config EXCEPT !.isRecording = TRUE, !.isReplaying = FALSE]
  /\ tickRef' = 0
  /\ obs' = Seen("startRecording")
  /\ session' = [session EXCEPT !.open = TRUE, !.gen = << >>, !.errors = 0]
  /\ UNCHANGED << phase, history, taskQueueRef, activeTraceDataRef,
                  lastAutopilotTick, traces, decisionLog, now, inflight >>

\* The click lands at least a millisecond after the previous handler, so
\* `trace-${Date.now()}` differs from the ids of the traces saved before.
NewTrace(t) ==
  [ id             |-> t,
    phase          |-> phase,
    integrityScore |-> IntegrityScore(history),
    data           |-> currentTraceRef ]

StopRecordingAndSave ==
  /\ now' = now + 1
  /\ traces' = << NewTrace(now') >> \o traces
  /\ config' = [config EXCEPT !.isRecording = FALSE]
  /\ obs' = [Seen("stopRecordingAndSave") EXCEPT !.at = now']
  /\ session' = [session EXCEPT
                   !.open = FALSE,
                   !.saved = << [ gen |-> session.gen, clean |-> session.open,
                                  errors |-> session.errors ] >> \o @]
  /\ UNCHANGED << phase, history, taskQueueRef, tickRef, currentTraceRef,
                  activeTraceDataRef, lastAutopilotTick, decisionLog, inflight >>

\* traces.find(t => t.id === traceId): the positions that match; find takes the first.
TraceMatches(traceId) == { i \in 1..Len(traces) : traces[i].id = traceId }

FirstTrace(traceId) ==
  CHOOSE i \in TraceMatches(traceId) : \A j \in TraceMatches(traceId) : i <= j

\* startReplay imposing the configuration of the trace's phase.
StartReplay_AppliesDeltas(traceId) ==
  IF TraceMatches(traceId) = {}
    THEN UNCHANGED prog
    ELSE
      LET trace == traces[FirstTrace(traceId)]
      IN  /\ activeTraceDataRef' = trace
          /\ phase' = trace.phase
          /\ tickRef' = 0
          /\ taskQueueRef' = << >>
          /\ history' = << >>
          /\ config' = [Merge(config, PhaseDeltas(trace.phase)) EXCEPT
                          !.isReplaying = TRUE, !.isRecording = FALSE,
                          !.activeTraceId = traceId]
          /\ obs' = [Seen("startReplay") EXCEPT !.tick = 0, !.cfg = config']
          /\ session' = [session EXCEPT
                           !.open = FALSE,
                           !.active = session.saved[FirstTrace(traceId)].gen,
                           !.activeClean = session.saved[FirstTrace(traceId)].clean]
          /\ UNCHANGED << currentTraceRef, lastAutopilotTick, traces, decisionLog,
                          now, inflight >>

\* startReplay leaving the live queue as it is.
StartReplay_KeepsQueue(traceId) ==
  IF TraceMatches(traceId) = {}
    THEN UNCHANGED prog
    ELSE
      LET trace == traces[FirstTrace(traceId)]
      IN  /\ activeTraceDataRef' = trace
          /\ phase' = trace.phase
          /\ tickRef' = 0
          /\ history' = << >>
          /\ config' = [config EXCEPT !.isReplaying = TRUE, !.isRecording = FALSE,
                                      !.activeTraceId = traceId]
          /\ obs' = [Seen("startReplay") EXCEPT !.tick = 0, !.cfg = config']
          /\ session' = [session EXCEPT
                           !.open = FALSE,
                           !.active = session.saved[FirstTrace(traceId)].gen,
                           !.activeClean = session.saved[FirstTrace(traceId)].clean]
          /\ UNCHANGED << taskQueueRef, currentTraceRef, lastAutopilotTick, traces,
                          decisionLog, now, inflight >>

StartReplay(traceId) ==
  IF TraceMatches(traceId) = {}
    THEN UNCHANGED prog
    ELSE
      LET trace == traces[FirstTrace(traceId)]
      IN  /\ activeTraceDataRef' = trace
          /\ phase' = trace.phase
          /\ tickRef' = 0
          /\ taskQueueRef' = << >>
          /\ history' = << >>
          /\ config' = [config EXCEPT !.isReplaying = TRUE, !.isRecording = FALSE,
                                      !.activeTraceId = traceId]
          /\ obs' = [Seen("startReplay") EXCEPT !.tick = 0, !.cfg = config']
          /\ session' = [session EXCEPT
                           !.open = FALSE,
                           !.active = session.saved[FirstTrace(traceId)].gen,
                           !.activeClean = session.saved[FirstTrace(traceId)].clean]
          /\ UNCHANGED << currentTraceRef, lastAutopilotTick, traces, decisionLog,
                          now, inflight >>

(***************************************************************************)
(* Controls of PhaseControls and of the header.                            *)
(***************************************************************************)
\* onPhaseChange={setPhase}; the phase buttons are disabled while isAutopilot.
SetPhase(p) ==
  /\ ~config.isAutopilot
  /\ phase' = p
  /\ UNCHANGED << config, history, taskQueueRef, tickRef, currentTraceRef,
                  activeTraceDataRef, lastAutopilotTick, traces, decisionLog, now,
                  inflight, obs, session >>

\* The fields the sliders and toggles of PhaseControls pass to onConfigChange.
SliderFields == { "cpuBudget", "latencyHardCeiling", "concurrencyLimit" }

SliderRange(field) ==
  IF field = "latencyHardCeiling"
    THEN { 10 * k : k \in 1..100 }
    ELSE IF field = "concurrencyLimit" THEN 1..100 ELSE 10..100

\* onConfigChange({ field: value }) from a slider, disabled while isAutopilot.
OnConfigChange(field, value) ==
  /\ ~config.isAutopilot
  /\ field \in SliderFields
  /\ value \in SliderRange(field)
  /\ config' = [config EXCEPT ![field] = value]
  /\ UNCHANGED << phase, history, taskQueueRef, tickRef, currentTraceRef,
                  activeTraceDataRef, lastAutopilotTick, traces, decisionLog, now,
                  inflight, obs, session >>

\* onConfigChange({ retriesEnabled: !config.retriesEnabled }), disabled while isAutopilot.
ToggleRetries ==
  /\ ~config.isAutopilot
  /\ config' = [config EXCEPT !.retriesEnabled = ~@]
  /\ UNCHANGED << phase, history, taskQueueRef, tickRef, currentTraceRef,
                  activeTraceDataRef, lastAutopilotTick, traces, decisionLog, now,
                  inflight, obs, session >>

\* onConfigChange({ isSelfHealing: !config.isSelfHealing })
ToggleSelfHealing ==
  /\ config' = [config EXCEPT !.isSelfHealing = ~@]
  /\ UNCHANGED << phase, history, taskQueueRef, tickRef, currentTraceRef,
                  activeTraceDataRef, lastAutopilotTick, traces, decisionLog, now,
                  inflight, obs, session >>

\* isAutopilot: !p.isAutopilot, isAutoAdvancing: !p.isAutopilot ? true : p.isAutoAdvancing
ToggleAutopilot ==
  /\ config' = [config EXCEPT
                  !.isAutopilot = ~@,
                  !.isAutoAdvancing = IF ~config.isAutopilot THEN TRUE ELSE @]
  /\ session' = [session EXCEPT !.quiet = 0]
  /\ UNCHANGED << phase, history, taskQueueRef, tickRef, currentTraceRef,
                  activeTraceDataRef, lastAutopilotTick, traces, decisionLog, now,
                  inflight, obs >>

\* isAccelerated: !p.isAccelerated
ToggleAccelerated ==
  /\ config' = [config EXCEPT !.isAccelerated = ~@]
  /\ UNCHANGED << phase, history, taskQueueRef, tickRef, currentTraceRef,
                  activeTraceDataRef, lastAutopilotTick, traces, decisionLog, now,
                  inflight, obs, session >>

(***************************************************************************)
(* Completions of the advisory calls.  Each runs when its promise settles, *)
(* any number of handlers after the call was made, with the closure of the *)
(* render that made the call.                                              *)
(***************************************************************************)
RemoveAt(s, i) == SubSeq(s, 1, i - 1) \o SubSeq(s, i + 1, Len(s))

\* policy.shouldAdvancePhase && config.isAutoAdvancing && currentIndex < phases.length - 1,
\* on the closure's config and phase.
AutopilotAdvances(policy, closure) ==
  policy.shouldAdvancePhase /\ closure.isAutoAdvancing /\ HasNextPhase(closure.phase)

\* config.isSelfHealing && history.length > 0 && last errorCount > 0, on the closure.
SelfHealingDue(closure) == closure.isSelfHealing /\ closure.lastErrored

\* The update written over a configuration read when the component was mounted.
ApplyPolicy_OverStale(prev, policy) ==
  [INITIAL_CONFIG EXCEPT !.cpuBudget = policy.cpuBudget,
                         !.latencyHardCeiling = policy.latencyHardCeiling,
                         !.concurrencyLimit = policy.concurrencyLimit]

\* setConfig(prev => ({ ...prev, cpuBudget, latencyHardCeiling, concurrencyLimit })):
\* the updater runs on the configuration current when the policy arrives.
ApplyPolicy(prev, policy) ==
  [prev EXCEPT !.cpuBudget = policy.cpuBudget,
               !.latencyHardCeiling = policy.latencyHardCeiling,
               !.concurrencyLimit = policy.concurrencyLimit]

\* The continuation discarding a policy that arrives with the autopilot off.
AutopilotResult_DropsStale(i, policy) ==
  /\ i \in 1..Len(inflight.autopilot)
  /\ LET closure == inflight.autopilot[i]
         applied == policy /= NoPolicy /\ config.isAutopilot
         advance == applied /\ AutopilotAdvances(policy, closure)
         heal    == applied /\ SelfHealingDue(closure)
         cfg1    == ApplyPolicy(config, policy)
         log1    == SliceFirst(<< policy.actionSummary >> \o decisionLog, DECISION_LOG_CAP)
         log2    == IF advance THEN << "AUTONOMOUS_PHASE_SHIFT" >> \o log1 ELSE log1
         log3    == IF heal THEN << "SELF_HEALING_ACTIVATED" >> \o log2 ELSE log2
     IN  /\ config' = IF ~applied THEN config
                      ELSE IF advance THEN [cfg1 EXCEPT !.phaseTickCounter = 0]
                      ELSE cfg1
         /\ phase' = IF advance THEN NextPhase(closure.phase) ELSE phase
         /\ decisionLog' = IF applied THEN log3 ELSE decisionLog
         /\ inflight' = [inflight EXCEPT
                           !.autopilot = RemoveAt(@, i),
                           !.audit = IF heal THEN @ + 1 ELSE @]
         /\ obs' = [Seen("autopilotResult") EXCEPT !.phase = phase', !.cfg = config',
                                                   !.failed = (policy = NoPolicy),
                                                   !.policy = policy,
                                                   !.asked = [ phase  |-> closure.phase,
                                                               config |-> closure.config ]]
         /\ session' = [session EXCEPT
                          !.steps = @ + Max(0, PhaseIndex(phase') - PhaseIndex(phase))]
  /\ UNCHANGED << history, taskQueueRef, tickRef, currentTraceRef, activeTraceDataRef,
                  lastAutopilotTick, traces, now >>

\* The continuation of autopilotStep after `await getAutopilotPolicy(...)`, for the
\* i-th call in flight.
AutopilotResult(i, policy) ==
  /\ i \in 1..Len(inflight.autopilot)
  /\ LET closure == inflight.autopilot[i]
         applied == policy /= NoPolicy
         advance == applied /\ AutopilotAdvances(policy, closure)
         heal    == applied /\ SelfHealingDue(closure)
         cfg1    == ApplyPolicy(config, policy)
         log1    == SliceFirst(<< policy.actionSummary >> \o decisionLog, DECISION_LOG_CAP)
         log2    == IF advance THEN << "AUTONOMOUS_PHASE_SHIFT" >> \o log1 ELSE log1
         log3    == IF heal THEN << "SELF_HEALING_ACTIVATED" >> \o log2 ELSE log2
     IN  /\ config' = IF ~applied THEN config
                      ELSE IF advance THEN [cfg1 EXCEPT !.phaseTickCounter = 0]
                      ELSE cfg1
         /\ phase' = IF advance THEN NextPhase(closure.phase) ELSE phase
         /\ decisionLog' = IF applied THEN log3 ELSE decisionLog
         /\ inflight' = [inflight EXCEPT
                           !.autopilot = RemoveAt(@, i),
                           !.audit = IF heal THEN @ + 1 ELSE @]
         /\ obs' = [Seen("autopilotResult") EXCEPT !.phase = phase', !.cfg = config',
                                                   !.failed = ~applied,
                                                   !.policy = policy,
                                                   !.asked = [ phase  |-> closure.phase,
                                                                config |-> closure.config ]]
         /\ session' = [session EXCEPT
                          !.steps = @ + Max(0, PhaseIndex(phase') - PhaseIndex(phase))]
  /\ UNCHANGED << history, taskQueueRef, tickRef, currentTraceRef, activeTraceDataRef,
                  lastAutopilotTick, traces, now >>

\* The continuation of runAdversarialAudit(true) after `await getAdversarialAnalysis(...)`.
\* A report carries suggestedConfig, a partial config, or does not.
\* The audit continuation logging a remediation whatever came back.
AuditResult_AlwaysLogs(report) ==
  /\ inflight.audit > 0
  /\ LET applies == report /= NoReport /\ report.hasSuggestion
     IN  /\ config' = IF applies THEN Merge(config, report.suggestedConfig) ELSE config
         /\ decisionLog' = << "AUTO_REMEDIATION_APPLIED" >> \o decisionLog
         /\ inflight' = [inflight EXCEPT !.audit = @ - 1]
         /\ obs' = [Seen("auditResult") EXCEPT !.cfg = config',
                                               !.failed = (report = NoReport)]
  /\ UNCHANGED << phase, history, taskQueueRef, tickRef, currentTraceRef,
                  activeTraceDataRef, lastAutopilotTick, traces, now, session >>

AuditResult(report) ==
  /\ inflight.audit > 0
  /\ LET applies == report /= NoReport /\ report.hasSuggestion
     IN  /\ config' = IF applies THEN Merge(config, report.suggestedConfig) ELSE config
         /\ decisionLog' = IF applies
                             THEN << "AUTO_REMEDIATION_APPLIED" >> \o decisionLog
                             ELSE decisionLog
         /\ inflight' = [inflight EXCEPT !.audit = @ - 1]
         /\ obs' = [Seen("auditResult") EXCEPT !.cfg = config',
                                               !.failed = (report = NoReport)]
  /\ UNCHANGED << phase, history, taskQueueRef, tickRef, currentTraceRef,
                  activeTraceDataRef, lastAutopilotTick, traces, now, session >>

\* The .then callback of generatePathologicalInput: patho is the list the service
\* returned, empty from its catch branch.
PathologicalResult(patho) ==
  /\ inflight.patho > 0
  /\ taskQueueRef' =
       IF Len(patho) > 0
         THEN taskQueueRef \o
                [ i \in 1..Len(patho) |->
                    [ id           |-> << "SYNTH", patho[i].id >>,
                      complexity   |-> patho[i].complexity,
                      startTime    |-> now,
                      status       |-> "PENDING",
                      assignedNode |-> "PRIMARY_PRO" ] ]
         ELSE taskQueueRef
  /\ inflight' = [inflight EXCEPT !.patho = @ - 1]
  /\ obs' = [Seen("pathologicalResult") EXCEPT !.failed = (Len(patho) = 0)]
  /\ UNCHANGED << phase, config, history, tickRef, currentTraceRef,
                  activeTraceDataRef, lastAutopilotTick, traces, decisionLog, now,
                  session >>

(***************************************************************************)
(* The engine specification: the clock, the phase buttons and the sliders  *)
(* of the latency ceiling and the CPU budget, from the first render.       *)
(***************************************************************************)
\* Wall-clock milliseconds between two handlers.
ElapsedChoices == { 40, 41, 80, 81, 501 }

\* Draws of the arrival count, and of the complexities of one tick's arrivals.
CountChoices == { 0, 3 }

ComplexityChoices == { << 50, 71, 70 >> }

\* Phase buttons pressed.
PhaseChoices ==
  { "ENTROPIC_ESCAPE_REMOVAL", "CONSTRAINT_COMPRESSION", "ZERO_ERROR_AUDIT" }

\* Values the sliders are dragged to.
SliderChoices == { << "latencyHardCeiling", 80 >>, << "cpuBudget", 50 >> }

EngineTick ==
  /\ budget.ticks < MaxTicks
  /\ \E count \in CountChoices, pat \in ComplexityChoices, dt \in ElapsedChoices :
       Tick(count, pat, dt)
  /\ budget' = [budget EXCEPT !.ticks = @ + 1]

EngineSetPhase ==
  /\ budget.userOps < MaxUserOps
  /\ \E p \in PhaseChoices : SetPhase(p)
  /\ budget' = [budget EXCEPT !.userOps = @ + 1]

EngineSlider ==
  /\ budget.userOps < MaxUserOps
  /\ \E c \in SliderChoices : OnConfigChange(c[1], c[2])
  /\ budget' = [budget EXCEPT !.userOps = @ + 1]

Next == EngineTick \/ EngineSetPhase \/ EngineSlider

Spec == Init /\ [][Next]_vars

(***************************************************************************)
(* The admission specification: the clock, the concurrency slider and the  *)
(* retry toggle, from the first render.                                    *)
(***************************************************************************)
AdmissionElapsed == { 40, 41 }

AdmissionCounts == { 0, 1, 2 }

AdmissionComplexities == { << 50, 50 >> }

AdmissionLimits == { 1, 2 }

AdmissionTick ==
  /\ budget.ticks < MaxTicks
  /\ \E count \in AdmissionCounts, pat \in AdmissionComplexities,
        dt \in AdmissionElapsed :
       Tick(count, pat, dt)
  /\ budget' = [budget EXCEPT !.ticks = @ + 1]

AdmissionSlider ==
  /\ budget.userOps < MaxUserOps
  /\ \E limit \in AdmissionLimits : OnConfigChange("concurrencyLimit", limit)
  /\ budget' = [budget EXCEPT !.userOps = @ + 1]

AdmissionRetries ==
  /\ budget.userOps < MaxUserOps
  /\ ToggleRetries
  /\ budget' = [budget EXCEPT !.userOps = @ + 1]

NextAdmission == AdmissionTick \/ AdmissionSlider \/ AdmissionRetries

SpecAdmission == Init /\ [][NextAdmission]_vars

(***************************************************************************)
(* The trace specification: the clock and the three trace handlers, from   *)
(* the first render.  startReplay is called with the id of a saved trace   *)
(* or with an id no trace has.                                             *)
(***************************************************************************)
TraceElapsed == { 41 }

TraceCounts == { 0, 2 }

TraceComplexities == { << 50, 71 >> }

TraceIds == { traces[i].id : i \in 1..Len(traces) } \cup { 0 }

TraceTick ==
  /\ budget.ticks < MaxTraceTicks
  /\ \E count \in TraceCounts, pat \in TraceComplexities, dt \in TraceElapsed :
       Tick(count, pat, dt)
  /\ budget' = [budget EXCEPT !.ticks = @ + 1]

TraceStartRecording ==
  /\ budget.traceOps < MaxTraceOps
  /\ StartRecording
  /\ budget' = [budget EXCEPT !.traceOps = @ + 1]

TraceStopRecording ==
  /\ budget.traceOps < MaxTraceOps
  /\ StopRecordingAndSave
  /\ budget' = [budget EXCEPT !.traceOps = @ + 1]

TraceStartReplay ==
  /\ budget.traceOps < MaxTraceOps
  /\ \E traceId \in TraceIds : StartReplay(traceId)
  /\ budget' = [budget EXCEPT !.traceOps = @ + 1]

NextTrace ==
  TraceTick \/ TraceStartRecording \/ TraceStopRecording \/ TraceStartReplay

SpecTrace == Init /\ [][NextTrace]_vars

(***************************************************************************)
(* The advisory specification: the clock at its real period, the autopilot *)
(* switch, the three trace handlers, and the completions of the autopilot  *)
(* and audit calls.  The run is quiet but for one arrival, which outlives  *)
(* the latency ceiling and fails on the tick before the first autopilot    *)
(* call, so that the call's closure sees an errored history.               *)
(***************************************************************************)
AdvisoryElapsed == { 1000 }

\* The firings of the timer at which a task arrives.
ArrivalFirings == { 8 }

AdvisoryComplexities == { << 50 >> }

\* The firings of the timer before the trace handlers are used.
WarmupFirings == 1..9

\* What getAutopilotPolicy resolves to.
AdvisoryPolicies ==
  { NoPolicy,
    [ cpuBudget |-> 60, latencyHardCeiling |-> 200, concurrencyLimit |-> 5,
      shouldAdvancePhase |-> FALSE, actionSummary |-> "TUNE" ],
    [ cpuBudget |-> 60, latencyHardCeiling |-> 200, concurrencyLimit |-> 5,
      shouldAdvancePhase |-> TRUE, actionSummary |-> "ESCALATE" ] }

\* What getAdversarialAnalysis resolves to; a suggestedConfig
\* holds any of the three resource limits of the response schema.
AdvisoryReports ==
  { NoReport,
    [ hasSuggestion |-> FALSE ],
    [ hasSuggestion |-> TRUE,
      suggestedConfig |-> [ concurrencyLimit |-> 20, cpuBudget |-> 80 ] ] }

AdvisoryTick ==
  /\ budget.ticks < MaxAdvisoryTicks
  /\ \E pat \in AdvisoryComplexities, dt \in AdvisoryElapsed :
       Tick(IF budget.ticks + 1 \in ArrivalFirings THEN 1 ELSE 0, pat, dt)
  /\ budget' = [budget EXCEPT !.ticks = @ + 1]

AdvisoryToggleAutopilot ==
  /\ budget.userOps < MaxUserOps
  /\ ToggleAutopilot
  /\ budget' = [budget EXCEPT !.userOps = @ + 1]

AdvisoryAutopilotResult ==
  /\ \E i \in 1..Len(inflight.autopilot), policy \in AdvisoryPolicies :
       AutopilotResult(i, policy)
  /\ UNCHANGED budget

AdvisoryAuditResult ==
  /\ \E report \in AdvisoryReports : AuditResult(report)
  /\ UNCHANGED budget

AdvisoryStartRecording ==
  /\ budget.ticks \notin WarmupFirings \cup { 0 }
  /\ budget.traceOps < MaxTraceOps
  /\ StartRecording
  /\ budget' = [budget EXCEPT !.traceOps = @ + 1]

AdvisoryStopRecording ==
  /\ budget.ticks \notin WarmupFirings \cup { 0 }
  /\ budget.traceOps < MaxTraceOps
  /\ StopRecordingAndSave
  /\ budget' = [budget EXCEPT !.traceOps = @ + 1]

AdvisoryStartReplay ==
  /\ budget.ticks \notin WarmupFirings \cup { 0 }
  /\ budget.traceOps < MaxTraceOps
  /\ \E traceId \in TraceIds : StartReplay(traceId)
  /\ budget' = [budget EXCEPT !.traceOps = @ + 1]

NextAdvisory ==
  \/ AdvisoryTick
  \/ AdvisoryToggleAutopilot
  \/ AdvisoryAutopilotResult
  \/ AdvisoryAuditResult
  \/ AdvisoryStartRecording
  \/ AdvisoryStopRecording
  \/ AdvisoryStartReplay

SpecAdvisory == Init /\ [][NextAdvisory]_vars

(***************************************************************************)
(* The long-run specification: the clock at its real period over more than *)
(* one phase length, a phase button and the autopilot switch, from the     *)
(* first render.                                                           *)
(***************************************************************************)
LongElapsed == { 1000 }

LongCounts == { 0 }

LongComplexities == { << 50 >> }

LongPhaseChoices == { "OBSERVATION_COLLAPSE", "ZERO_ERROR_AUDIT", "BASE" }

LongTick ==
  /\ budget.ticks < MaxLongTicks
  /\ \E count \in LongCounts, pat \in LongComplexities, dt \in LongElapsed :
       Tick(count, pat, dt)
  /\ budget' = [budget EXCEPT !.ticks = @ + 1]

LongSetPhase ==
  /\ budget.userOps < MaxLongOps
  /\ \E p \in LongPhaseChoices : SetPhase(p)
  /\ budget' = [budget EXCEPT !.userOps = @ + 1]

LongToggleAutopilot ==
  /\ budget.userOps < MaxLongOps
  /\ ToggleAutopilot
  /\ budget' = [budget EXCEPT !.userOps = @ + 1]

NextLong == LongTick \/ LongSetPhase \/ LongToggleAutopilot

SpecLong == Init /\ [][NextLong]_vars

(***************************************************************************)
(* The pilot specification: the clock at its real period with no arrivals, *)
(* the phase buttons, the autopilot switch and the completions of the      *)
(* autopilot calls, from the first render.                                 *)
(***************************************************************************)
PilotElapsed == { 1000 }

PilotCounts == { 0 }

PilotComplexities == { << 50 >> }

PilotPhaseChoices == { "BASE", "OBSERVATION_COLLAPSE" }

PilotTick ==
  /\ budget.ticks < MaxPilotTicks
  /\ \E count \in PilotCounts, pat \in PilotComplexities, dt \in PilotElapsed :
       Tick(count, pat, dt)
  /\ budget' = [budget EXCEPT !.ticks = @ + 1]

PilotSetPhase ==
  /\ budget.userOps < MaxPilotOps
  /\ \E p \in PilotPhaseChoices : SetPhase(p)
  /\ budget' = [budget EXCEPT !.userOps = @ + 1]

PilotToggleAutopilot ==
  /\ budget.userOps < MaxPilotOps
  /\ ToggleAutopilot
  /\ budget' = [budget EXCEPT !.userOps = @ + 1]

PilotAutopilotResult ==
  /\ \E i \in 1..Len(inflight.autopilot), policy \in AdvisoryPolicies :
       AutopilotResult(i, policy)
  /\ UNCHANGED budget

NextPilot ==
  \/ PilotTick
  \/ PilotSetPhase
  \/ PilotToggleAutopilot
  \/ PilotAutopilotResult

SpecPilot == Init /\ [][NextPilot]_vars

(***************************************************************************)
(* The session specification: the clock at its real period, so that a task *)
(* outlives the latency ceiling within one period, the phase buttons, the  *)
(* CPU slider and the three trace handlers, from the first render.         *)
(***************************************************************************)
SessionElapsed == { 1000 }

SessionCounts == { 0, 1 }

SessionComplexities == { << 50 >> }

SessionPhaseChoices == { "BASE", "CONSTRAINT_COMPRESSION" }

SessionSliderChoices == { << "cpuBudget", 70 >> }

SessionTick ==
  /\ budget.ticks < MaxSessionTicks
  /\ \E count \in SessionCounts, pat \in SessionComplexities, dt \in SessionElapsed :
       Tick(count, pat, dt)
  /\ budget' = [budget EXCEPT !.ticks = @ + 1]

SessionSetPhase ==
  /\ budget.userOps < MaxUserOps
  /\ \E p \in SessionPhaseChoices : SetPhase(p)
  /\ budget' = [budget EXCEPT !.userOps = @ + 1]

SessionSlider ==
  /\ budget.userOps < MaxUserOps
  /\ \E c \in SessionSliderChoices : OnConfigChange(c[1], c[2])
  /\ budget' = [budget EXCEPT !.userOps = @ + 1]

SessionStartRecording ==
  /\ budget.traceOps < MaxSessionTraceOps
  /\ StartRecording
  /\ budget' = [budget EXCEPT !.traceOps = @ + 1]

SessionStopRecording ==
  /\ budget.traceOps < MaxSessionTraceOps
  /\ StopRecordingAndSave
  /\ budget' = [budget EXCEPT !.traceOps = @ + 1]

SessionStartReplay ==
  /\ budget.traceOps < MaxSessionTraceOps
  /\ \E traceId \in TraceIds : StartReplay(traceId)
  /\ budget' = [budget EXCEPT !.traceOps = @ + 1]

NextSession ==
  \/ SessionTick
  \/ SessionSetPhase
  \/ SessionSlider
  \/ SessionStartRecording
  \/ SessionStopRecording
  \/ SessionStartReplay

SpecSession == Init /\ [][NextSession]_vars

(***************************************************************************)
(* The history specification: the clock at its real period for more ticks  *)
(* than the history keeps, with arrivals drawn in the first two ticks and  *)
(* the autopilot switch, from the first render.                            *)
(***************************************************************************)
HistoryElapsed == { 1000 }

\* The firings of the timer at which the arrival count is drawn from HistoryCounts.
HistoryArrivalFirings == { 1, 2 }

HistoryCounts == { 0, 1 }

HistoryComplexities == { << 50 >> }

HistoryTick ==
  /\ budget.ticks < MaxHistoryTicks
  /\ \E count \in HistoryCounts, pat \in HistoryComplexities, dt \in HistoryElapsed :
       /\ (budget.ticks + 1 \notin HistoryArrivalFirings => count = 0)
       /\ Tick(count, pat, dt)
  /\ budget' = [budget EXCEPT !.ticks = @ + 1]

HistoryToggleAutopilot ==
  /\ budget.userOps < MaxLongOps
  /\ budget.ticks = 0
  /\ ToggleAutopilot
  /\ budget' = [budget EXCEPT !.userOps = @ + 1]

NextHistory == HistoryTick \/ HistoryToggleAutopilot

SpecHistory == Init /\ [][NextHistory]_vars

(***************************************************************************)
(* The failure specification: the clock at its real period up to the first *)
(* pathological-input request, one arrival that fails before the first     *)
(* autopilot call, the autopilot switch, and the completions of the three  *)
(* advisory calls, each of which may be the failure of the call.           *)
(***************************************************************************)
FailureElapsed == { 1000 }

FailureComplexities == { << 50 >> }

\* What getAutopilotPolicy resolves to.
FailurePolicies ==
  { NoPolicy,
    [ cpuBudget |-> 60, latencyHardCeiling |-> 200, concurrencyLimit |-> 5,
      shouldAdvancePhase |-> FALSE, actionSummary |-> "TUNE" ] }

\* What generatePathologicalInput resolves to; the empty list is its catch branch.
FailurePayloads == { << >>, << [ id |-> "p0", complexity |-> 90 ] >> }

FailureTick ==
  /\ budget.ticks < MaxFailureTicks
  /\ \E pat \in FailureComplexities, dt \in FailureElapsed :
       Tick(IF budget.ticks + 1 \in ArrivalFirings THEN 1 ELSE 0, pat, dt)
  /\ budget' = [budget EXCEPT !.ticks = @ + 1]

FailureToggleAutopilot ==
  /\ budget.userOps < MaxLongOps
  /\ budget.ticks = 0
  /\ ToggleAutopilot
  /\ budget' = [budget EXCEPT !.userOps = @ + 1]

FailureAutopilotResult ==
  /\ \E i \in 1..Len(inflight.autopilot), policy \in FailurePolicies :
       AutopilotResult(i, policy)
  /\ UNCHANGED budget

FailureAuditResult ==
  /\ \E report \in AdvisoryReports : AuditResult(report)
  /\ UNCHANGED budget

FailurePathologicalResult ==
  /\ \E patho \in FailurePayloads : PathologicalResult(patho)
  /\ UNCHANGED budget

NextFailure ==
  \/ FailureTick
  \/ FailureToggleAutopilot
  \/ FailureAutopilotResult
  \/ FailureAuditResult
  \/ FailurePathologicalResult

SpecFailure == Init /\ [][NextFailure]_vars

(***************************************************************************)
(* The decision specification: the clock at its real period with the       *)
(* autopilot on, one arrival failing on the tick before each autopilot     *)
(* call, and the advisory results arriving before the next tick.           *)
(***************************************************************************)
DecisionElapsed == { 1000 }

DecisionComplexities == { << 50 >> }

\* The firings of the timer at which a task arrives: two ticks before each call.
DecisionArrivalFirings == { AUTOPILOT_INTERVAL * k - 2 : k \in 1..12 }

\* What getAdversarialAnalysis resolves to.
DecisionReports ==
  { [ hasSuggestion |-> TRUE,
      suggestedConfig |-> [ concurrencyLimit |-> 20, cpuBudget |-> 80 ] ] }

DecisionTick ==
  /\ budget.ticks < MaxDecisionTicks
  /\ inflight.autopilot = << >>
  /\ inflight.audit = 0
  /\ \E pat \in DecisionComplexities, dt \in DecisionElapsed :
       Tick(IF budget.ticks + 1 \in DecisionArrivalFirings THEN 1 ELSE 0, pat, dt)
  /\ budget' = [budget EXCEPT !.ticks = @ + 1]

DecisionToggleAutopilot ==
  /\ budget.userOps < MaxLongOps
  /\ budget.ticks = 0
  /\ ToggleAutopilot
  /\ budget' = [budget EXCEPT !.userOps = @ + 1]

DecisionAutopilotResult ==
  /\ \E i \in 1..Len(inflight.autopilot), policy \in FailurePolicies :
       AutopilotResult(i, policy)
  /\ UNCHANGED budget

DecisionAuditResult ==
  /\ \E report \in DecisionReports : AuditResult(report)
  /\ UNCHANGED budget

NextDecision ==
  \/ DecisionTick
  \/ DecisionToggleAutopilot
  \/ DecisionAutopilotResult
  \/ DecisionAuditResult

SpecDecision == Init /\ [][NextDecision]_vars

(***************************************************************************)
(* The injection specification: the clock at its real period up to the     *)
(* first pathological-input request and one tick past it, with the         *)
(* autopilot switched on before the first tick, a trace recorded over the   *)
(* first ticks and replayed at any later time, and the completion of the    *)
(* pathological call.  The autopilot calls stay in flight.                  *)
(***************************************************************************)
InjectionElapsed == { 1000 }

InjectionComplexities == { << 50 >> }

\* The firings of the clock that generate one arrival.
InjectionArrivalFirings == { 1 }

\* What generatePathologicalInput resolves to.
InjectionPayloads == { << [ id |-> "p0", complexity |-> 90 ] >> }

InjectionTick ==
  /\ budget.ticks < MaxInjectionTicks
  /\ \E pat \in InjectionComplexities, dt \in InjectionElapsed :
       Tick(IF budget.ticks + 1 \in InjectionArrivalFirings THEN 1 ELSE 0, pat, dt)
  /\ budget' = [budget EXCEPT !.ticks = @ + 1]

InjectionToggleAutopilot ==
  /\ budget.userOps < MaxLongOps
  /\ budget.ticks = 0
  /\ ToggleAutopilot
  /\ budget' = [budget EXCEPT !.userOps = @ + 1]

InjectionStartRecording ==
  /\ budget.traceOps < MaxInjectionTraceOps
  /\ budget.ticks = 0
  /\ ~config.isRecording
  /\ StartRecording
  /\ budget' = [budget EXCEPT !.traceOps = @ + 1]

InjectionStopRecording ==
  /\ budget.traceOps < MaxInjectionTraceOps
  /\ config.isRecording
  /\ budget.ticks <= MaxInjectionRecorded
  /\ StopRecordingAndSave
  /\ budget' = [budget EXCEPT !.traceOps = @ + 1]

InjectionStartReplay ==
  /\ budget.traceOps < MaxInjectionTraceOps
  /\ traces /= << >>
  /\ StartReplay(traces[1].id)
  /\ budget' = [budget EXCEPT !.traceOps = @ + 1]

InjectionPathologicalResult ==
  /\ \E patho \in InjectionPayloads : PathologicalResult(patho)
  /\ UNCHANGED budget

NextInjection ==
  \/ InjectionTick
  \/ InjectionToggleAutopilot
  \/ InjectionStartRecording
  \/ InjectionStopRecording
  \/ InjectionStartReplay
  \/ InjectionPathologicalResult

SpecInjection == Init /\ [][NextInjection]_vars

(***************************************************************************)
(* The cadence specification: the clock at its real period with no         *)
(* arrivals, the autopilot switched on before the first tick, and the      *)
(* three trace handlers at any time.  The autopilot calls stay in flight.  *)
(***************************************************************************)
CadenceElapsed == { 1000 }

CadenceComplexities == { << 50 >> }

CadenceTick ==
  /\ budget.ticks < MaxCadenceTicks
  /\ \E pat \in CadenceComplexities, dt \in CadenceElapsed : Tick(0, pat, dt)
  /\ budget' = [budget EXCEPT !.ticks = @ + 1]

CadenceToggleAutopilot ==
  /\ budget.userOps < MaxLongOps
  /\ budget.ticks = 0
  /\ ToggleAutopilot
  /\ budget' = [budget EXCEPT !.userOps = @ + 1]

CadenceStartRecording ==
  /\ budget.traceOps < MaxCadenceTraceOps
  /\ ~config.isRecording
  /\ StartRecording
  /\ budget' = [budget EXCEPT !.traceOps = @ + 1]

CadenceStopRecording ==
  /\ budget.traceOps < MaxCadenceTraceOps
  /\ config.isRecording
  /\ StopRecordingAndSave
  /\ budget' = [budget EXCEPT !.traceOps = @ + 1]

CadenceStartReplay ==
  /\ budget.traceOps < MaxCadenceTraceOps
  /\ traces /= << >>
  /\ StartReplay(traces[1].id)
  /\ budget' = [budget EXCEPT !.traceOps = @ + 1]

NextCadence ==
  \/ CadenceTick
  \/ CadenceToggleAutopilot
  \/ CadenceStartRecording
  \/ CadenceStopRecording
  \/ CadenceStartReplay

SpecCadence == Init /\ [][NextCadence]_vars

(***************************************************************************)
(* The liveness specification: the clock at its real period, firing for as *)
(* long as a task is queued or arrivals are still to come, and the sliders *)
(* of the three limits, from the first render.  Arrivals come in the first *)
(* firings only, so that the queue can drain; the interval timer keeps     *)
(* firing tick, which is the fairness of the clock.                        *)
(***************************************************************************)
LiveElapsed == { 1000 }

LiveCounts == { 0, 2 }

LiveComplexities == { << 90, 50 >> }

\* Values the sliders are dragged to: within the ranges of the controls, so
\* concurrencyLimit >= 1, cpuBudget > 0 and the ceiling is finite.
LiveSliderChoices ==
  { << "concurrencyLimit", 1 >>, << "cpuBudget", 10 >>, << "latencyHardCeiling", 1000 >> }

\* The ids of the tasks the firings with arrivals can generate.
LiveIds == { << "T", t, i >> : t \in 1..MaxLiveArrivalTicks, i \in 0..1 }

LiveTick ==
  /\ budget.ticks < MaxLiveTicks
  /\ budget.ticks < MaxLiveArrivalTicks \/ taskQueueRef /= << >>
  /\ \E count \in LiveCounts, pat \in LiveComplexities, dt \in LiveElapsed :
       /\ budget.ticks >= MaxLiveArrivalTicks => count = 0
       /\ Tick(count, pat, dt)
  /\ budget' = [budget EXCEPT !.ticks = @ + 1]

LiveSlider ==
  /\ budget.userOps < MaxLiveOps
  /\ \E c \in LiveSliderChoices : OnConfigChange(c[1], c[2])
  /\ budget' = [budget EXCEPT !.userOps = @ + 1]

NextLive == LiveTick \/ LiveSlider

SpecLive == Init /\ [][NextLive]_vars /\ WF_vars(LiveTick)

(***************************************************************************)
(* Properties of the tick engine.                                          *)
(***************************************************************************)
TickRan == obs.op = "tick"

LastMetrics == history[Len(history)]

Duration(task) == obs.at - task.startTime

\* Positions of the queue the last tick evaluated whose task was EXECUTING after
\* the admission pass and older than the latency ceiling the tick read.
Breached ==
  { i \in 1..Len(obs.admitted) :
      /\ obs.admitted[i].status = "EXECUTING"
      /\ Duration(obs.admitted[i]) > obs.cfg.latencyHardCeiling }

\* Positions whose task was EXECUTING after the admission pass and within the ceiling.
WithinCeiling ==
  { i \in 1..Len(obs.admitted) :
      /\ obs.admitted[i].status = "EXECUTING"
      /\ Duration(obs.admitted[i]) <= obs.cfg.latencyHardCeiling }

\* C1: after the admission pass of every tick the number of EXECUTING tasks is at
\* most the concurrencyLimit the tick read, and so is the number of EXECUTING
\* tasks left in the live queue for as long as the limit is not changed.
C1_ExecutingWithinLimit ==
  TickRan =>
    /\ ExecutingCount(obs.admitted) <= obs.cfg.concurrencyLimit
    /\ (config.concurrencyLimit = obs.cfg.concurrencyLimit
          => ExecutingCount(taskQueueRef) <= config.concurrencyLimit)

\* Scenario A: limit 1, retries off, nothing in the queue, two arrivals of complexity 50.
ScenarioA ==
  /\ TickRan
  /\ obs.cfg.concurrencyLimit = 1
  /\ ~obs.cfg.retriesEnabled
  /\ Len(obs.incoming) = 2
  /\ Len(obs.queued) = 2
  /\ \A i \in 1..2 : obs.incoming[i].complexity = 50

\* C2: in scenario A exactly one of the two arrivals is EXECUTING and the other
\* REFUSED after the admission pass, and the tick's refusalCount is 1.
C2_ScenarioA ==
  ScenarioA =>
    /\ ExecutingCount(obs.admitted) = 1
    /\ Len(SelectSeq(obs.admitted, IsRefused)) = 1
    /\ LastMetrics.refusalCount = 1

\* C3: every task a tick creates from a generated or replayed arrival enters the
\* queue PENDING with the arrival's id and complexity and with exactly one node,
\* PRIMARY_PRO if and only if its complexity is above 70, EDGE_FLASH otherwise.
C3_NodeByComplexity ==
  TickRan =>
    /\ Len(obs.queued) >= Len(obs.incoming)
    /\ \A i \in 1..Len(obs.incoming) :
         LET task == obs.queued[Len(obs.queued) - Len(obs.incoming) + i]
         IN  /\ task.id = obs.incoming[i].id
             /\ task.complexity = obs.incoming[i].complexity
             /\ task.assignedNode \in { "PRIMARY_PRO", "EDGE_FLASH" }
             /\ (task.assignedNode = "PRIMARY_PRO") <=> (task.complexity > 70)

\* A tick routed an arrival of complexity exactly 70 to EDGE_FLASH and one of
\* complexity 71 to PRIMARY_PRO.
C3_Witness ==
  /\ TickRan
  /\ \E i, j \in 1..Len(obs.queued) :
       /\ obs.queued[i].startTime = obs.at
       /\ obs.queued[j].startTime = obs.at
       /\ obs.queued[i].complexity = 70 /\ obs.queued[i].assignedNode = "EDGE_FLASH"
       /\ obs.queued[j].complexity = 71 /\ obs.queued[j].assignedNode = "PRIMARY_PRO"

\* C4: a task EXECUTING for longer than latencyHardCeiling becomes REFUSED in
\* CONSTRAINT_COMPRESSION and ZERO_ERROR_AUDIT, counted in refusalCount, and FAILED
\* in every other phase, counted in errorCount; a snapshot produced in one of the
\* two phases has errorCount 0.
C4_CeilingBreach ==
  TickRan =>
    LET held == obs.phase \in { "CONSTRAINT_COMPRESSION", "ZERO_ERROR_AUDIT" }
        refusedAtAdmission ==
          { i \in 1..Len(obs.queued) :
              obs.queued[i].status = "PENDING" /\ obs.admitted[i].status = "REFUSED" }
    IN  /\ \A i \in Breached :
             obs.executed[i].status = (IF held THEN "REFUSED" ELSE "FAILED")
        /\ LastMetrics.errorCount = (IF held THEN 0 ELSE Cardinality(Breached))
        /\ LastMetrics.refusalCount =
             Cardinality(refusedAtAdmission) + (IF held THEN Cardinality(Breached) ELSE 0)

\* Scenario B: ZERO_ERROR_AUDIT, ceiling 80, a task 81 ms old is REFUSED and the
\* snapshot counts no error.
C4_Witness ==
  /\ TickRan
  /\ obs.phase = "ZERO_ERROR_AUDIT"
  /\ obs.cfg.latencyHardCeiling = 80
  /\ \E i \in Breached :
       Duration(obs.admitted[i]) = 81 /\ obs.executed[i].status = "REFUSED"
  /\ LastMetrics.errorCount = 0
  /\ LastMetrics.refusalCount > 0

\* Scenario C: BASE, ceiling 500, a task 501 ms old is FAILED and counted as an error.
ScenarioC ==
  /\ TickRan
  /\ obs.phase = "BASE"
  /\ obs.cfg.latencyHardCeiling = 500
  /\ \E i \in Breached :
       Duration(obs.admitted[i]) = 501 /\ obs.executed[i].status = "FAILED"
  /\ LastMetrics.errorCount > 0

\* C5: a task EXECUTING for no longer than latencyHardCeiling becomes COMPLETED
\* exactly when its duration exceeds complexity * overheadMultiplier * 100 / cpuBudget
\* (1.2 on PRIMARY_PRO, 0.8 on EDGE_FLASH) and otherwise stays EXECUTING; a task
\* past the ceiling is never COMPLETED.
C5_ServiceThreshold ==
  TickRan =>
    /\ \A i \in WithinCeiling :
         LET task == obs.admitted[i]
             m10  == IF task.assignedNode = "PRIMARY_PRO" THEN 12 ELSE 8
             done == Duration(task) * obs.cfg.cpuBudget * 10 > task.complexity * m10 * 100
         IN  obs.executed[i].status = (IF done THEN "COMPLETED" ELSE "EXECUTING")
    /\ \A i \in Breached : obs.executed[i].status /= "COMPLETED"

\* Scenario D: cpuBudget 100, complexity 50 on EDGE_FLASH, 41 ms old: COMPLETED;
\* and a task past both the threshold and the ceiling was not COMPLETED.
C5_Witness ==
  /\ TickRan
  /\ obs.cfg.cpuBudget = 100
  /\ \E i \in WithinCeiling :
       /\ obs.admitted[i].complexity = 50
       /\ obs.admitted[i].assignedNode = "EDGE_FLASH"
       /\ Duration(obs.admitted[i]) = 41
       /\ obs.executed[i].status = "COMPLETED"

(***************************************************************************)
(* Properties of the trace recorder and replayer.                          *)
(***************************************************************************)
\* The last handler was a tick that took the replay branch.
ReplayTickRan == TickRan /\ obs.replay

RecordedTicks == Len(activeTraceDataRef.data)

C7_ReplayEnds ==
  /\ config.isReplaying =>
       (activeTraceDataRef /= NoTrace /\ tickRef <= RecordedTicks)
  /\ (TickRan /\ obs.cfg.isReplaying) =>
       /\ obs.replay
       /\ IF obs.tick <= RecordedTicks
            THEN /\ config.isReplaying
                 /\ activeTraceDataRef.data[obs.tick].tick = obs.tick
                 /\ obs.incoming = activeTraceDataRef.data[obs.tick].incomingTasks
            ELSE /\ obs.tick = RecordedTicks + 1
                 /\ obs.exhausted
                 /\ ~config.isReplaying

\* The third tick of the replay of a trace of two recorded ticks cleared isReplaying.
C7_Witness ==
  /\ TickRan
  /\ obs.cfg.isReplaying
  /\ RecordedTicks = 2
  /\ obs.tick = 3
  /\ ~config.isReplaying

\* The first tick of the replay of a trace saved before any tick ran cleared isReplaying.
EmptyTraceReplayEnds ==
  /\ TickRan
  /\ obs.cfg.isReplaying
  /\ RecordedTicks = 0
  /\ obs.tick = 1
  /\ ~config.isReplaying

(***************************************************************************)
(* Properties of the mode flags.                                           *)
(***************************************************************************)
\* C8: isRecording and isReplaying are never both true, whatever the order of
\* startRecording, stopRecordingAndSave, startReplay, the end-of-replay clear of
\* the tick and the applications of advisory results.
C8_ModesExclusive == ~(config.isRecording /\ config.isReplaying)

\* C8 witness: an audit's suggested configuration has just been merged into the
\* configuration while a replay is active, and the replay flag stands alone.
C8_Witness ==
  /\ obs.op = "auditResult"
  /\ Len(decisionLog) > 0
  /\ decisionLog[1] = "AUTO_REMEDIATION_APPLIED"
  /\ config.isReplaying
  /\ ~config.isRecording

\* An autopilot policy applied while recording.
PolicyAppliedWhileRecording ==
  /\ obs.op = "autopilotResult"
  /\ Len(decisionLog) > 0
  /\ config.isRecording
  /\ config.concurrencyLimit = 5

\* The end-of-replay clear with an advisory result still to come.
ReplayEndsWithAdviceInFlight ==
  /\ TickRan /\ obs.exhausted
  /\ Len(inflight.autopilot) + inflight.audit > 0

(***************************************************************************)
(* Properties of auto-advance.                                             *)
(***************************************************************************)
\* A step of the tick handler: the only handler that adds one to tickRef.
TickStep == tickRef' = tickRef + 1

\* C9: when auto-advance is driving and a tick brings phaseTickCounter to 30 in
\* the last phase, ZERO_ERROR_AUDIT, isAutoAdvancing becomes false, the counter
\* becomes 0 and the phase stays (no wrap-around to BASE); ticks taken while
\* isAutoAdvancing is false leave the phase and the counter as they are.
C9_LastPhaseStops ==
  [][ TickStep =>
        /\ (/\ AutoAdvanceActive(config)
            /\ config.phaseTickCounter + 1 >= TICKS_PER_PHASE
            /\ phase = PHASE_5)
             => /\ ~config'.isAutoAdvancing
                /\ config'.phaseTickCounter = 0
                /\ phase' = phase
        /\ ~config.isAutoAdvancing
             => /\ phase' = phase
                /\ config'.phaseTickCounter = config.phaseTickCounter
                /\ ~config'.isAutoAdvancing ]_vars

\* C9 witness (Scenario F): the 30th tick stopped auto-advance in ZERO_ERROR_AUDIT
\* and a later tick has run since, with the phase and the counter as the stop left them.
C9_Witness ==
  /\ TickRan
  /\ obs.tick > TICKS_PER_PHASE
  /\ obs.phase = PHASE_5
  /\ ~obs.cfg.isAutoAdvancing
  /\ ~obs.cfg.isAutopilot
  /\ obs.cfg.phaseTickCounter = 0
  /\ phase = PHASE_5
  /\ config.phaseTickCounter = 0
  /\ ~config.isAutoAdvancing

\* C10: a tick changes the phase only when auto-advance is driving and
\* phaseTickCounter + 1 reaches 30; it then moves the phase to its immediate
\* successor in the order of Phases and resets the counter to 0, and whenever
\* the counter reaches 30 below the last phase it does so; otherwise a driving
\* tick adds one to the counter.
C10_LinearAdvance ==
  [][ TickStep =>
        /\ phase' /= phase
             => /\ AutoAdvanceActive(config)
                /\ config.phaseTickCounter + 1 = TICKS_PER_PHASE
                /\ PhaseIndex(phase') = PhaseIndex(phase) + 1
                /\ config'.phaseTickCounter = 0
        /\ (/\ AutoAdvanceActive(config)
            /\ config.phaseTickCounter + 1 = TICKS_PER_PHASE
            /\ HasNextPhase(phase))
             => phase' = NextPhase(phase)
        /\ (AutoAdvanceActive(config) /\ config.phaseTickCounter + 1 < TICKS_PER_PHASE)
             => config'.phaseTickCounter = config.phaseTickCounter + 1
        /\ config.phaseTickCounter < TICKS_PER_PHASE ]_vars

\* C10 witness: the 30th tick has just moved the phase from BASE to its successor
\* and reset the counter.
C10_Witness ==
  /\ TickRan
  /\ obs.tick = TICKS_PER_PHASE
  /\ obs.phase = Phases[1]
  /\ obs.cfg.phaseTickCounter + 1 = TICKS_PER_PHASE
  /\ phase = Phases[2]
  /\ config.phaseTickCounter = 0
  /\ config.isAutoAdvancing

\* An advance out of a phase the user selected.
AdvanceFromSelectedPhase ==
  /\ TickRan
  /\ obs.phase = "OBSERVATION_COLLAPSE"
  /\ phase = PHASE_5
  /\ config.phaseTickCounter = 0

(***************************************************************************)
(* Properties of the two rules that drive the phase.                       *)
(***************************************************************************)
\* C11: between two consecutive ticks, counting the tick's own auto-advance and
\* every autopilot result applied since, the driving rules raise the phase
\* index by at most 1: the steps they took since the last tick began number at
\* most one, or at least the phase stands at most one step above where it
\* stood when that tick began.
C11_OneStepPerInterval ==
  \/ session.steps <= 1
  \/ PhaseIndex(phase) <= PhaseIndex(session.before) + 1

\* The stale policy: a policy asked for in OBSERVATION_COLLAPSE is applied after
\* the user went back to BASE, and takes the phase from BASE to ZERO_ERROR_AUDIT.
StalePolicyJump ==
  /\ obs.op = "autopilotResult"
  /\ phase = PHASE_5
  /\ session.steps = 5
  /\ session.before = "BASE"

(***************************************************************************)
(* Properties of the configuration a phase imposes on entry.               *)
(***************************************************************************)
LimitFields == { "cpuBudget", "latencyHardCeiling", "concurrencyLimit", "retriesEnabled" }

\* C12: while isReplaying is true no change of the phase, neither startReplay's
\* change to the recorded phase nor any later one, modifies cpuBudget,
\* latencyHardCeiling, concurrencyLimit or retriesEnabled.
C12_ReplayKeepsLimits ==
  [][ ((config.isReplaying \/ config'.isReplaying) /\ phase' /= phase)
        => \A f \in LimitFields : config'[f] = config[f] ]_vars

\* C12 witness: startReplay has just moved the phase from BASE to the recorded
\* CONSTRAINT_COMPRESSION, and the limits are those of before the call, not
\* those CONSTRAINT_COMPRESSION imposes.
C12_Witness ==
  /\ obs.op = "startReplay"
  /\ obs.phase = "BASE"
  /\ activeTraceDataRef.phase = PHASE_2
  /\ phase = PHASE_2
  /\ config = obs.cfg
  /\ config.isReplaying
  /\ config.cpuBudget = 100
  /\ config.latencyHardCeiling = 500

\* A phase button pressed during a replay.
PhaseChangedDuringReplay ==
  /\ obs.op = "startReplay"
  /\ obs.cfg.isReplaying
  /\ config = obs.cfg
  /\ activeTraceDataRef.phase = PHASE_2
  /\ phase = "BASE"

\* C13: a phase entered while no replay is active has imposed its configuration
\* by the time the next tick reads the configuration: with no replay ever
\* started and nothing but phase changes writing the limits, every tick reads
\* the limits its phase imposes (BASE 100 / 500 / 20 with retries,
\* ENTROPIC_ESCAPE_REMOVAL no retries, CONSTRAINT_COMPRESSION 50 / 150 / 15,
\* ZERO_ERROR_AUDIT 30 / 80 / 10).
C13_PhaseEntryDeltas ==
  (TickRan /\ ~obs.replay /\ activeTraceDataRef = NoTrace)
    => \A f \in DOMAIN PhaseDeltas(obs.phase) : obs.cfg[f] = PhaseDeltas(obs.phase)[f]

\* A tick reading the initial limits in ZERO_ERROR_AUDIT, selected by the user.
AuditPhaseWithBaseLimits ==
  /\ TickRan
  /\ obs.phase = PHASE_5
  /\ obs.cfg.cpuBudget = 100
  /\ obs.cfg.latencyHardCeiling = 500
  /\ obs.cfg.concurrencyLimit = 20

\* A tick reading retriesEnabled = true in ENTROPIC_ESCAPE_REMOVAL, entered by
\* auto-advance.
AdvancedPhaseKeepsRetries ==
  /\ TickRan
  /\ obs.tick > TICKS_PER_PHASE
  /\ obs.phase = Phases[2]
  /\ obs.cfg.retriesEnabled

(***************************************************************************)
(* Properties of the metrics history and of the integrity score.           *)
(***************************************************************************)
\* C14: from one tick to the next integrityScore = max(0, 100 - errors / 10),
\* computed over the metrics history, does not increase and is never below 0,
\* also in runs longer than the history keeps.
C14_ScoreNonIncreasing ==
  [][ TickStep =>
        /\ IntegrityScore(history') <= IntegrityScore(history)
        /\ IntegrityScore(history') >= 0 ]_vars

\* C20: each tick appends exactly one snapshot to the history, the history never
\* holds more than 101 snapshots (the 100 most recent and the new one), the
\* oldest is evicted when it is full, and the snapshots kept are the most
\* recent ones in the order they were produced.
C20_HistoryBounded ==
  /\ Len(history) <= HISTORY_KEEP + 1
  /\ Len(history) = IF tickRef <= HISTORY_KEEP + 1 THEN tickRef ELSE HISTORY_KEEP + 1
  /\ \A i \in 1..Len(history) : history[i].timestamp = tickRef - Len(history) + i

\* C20 witness: the history is full and its two oldest snapshots have been evicted.
C20_Witness ==
  /\ TickRan
  /\ Len(history) = HISTORY_KEEP + 1
  /\ history[1].timestamp = 3
  /\ history[Len(history)].timestamp = tickRef

\* C15: the integrityScore stopRecordingAndSave stores in a trace is
\* max(0, 100 - E / 10) with E the errorCount total of exactly the ticks between
\* the startRecording and the stopRecordingAndSave of that recording.
C15_TraceScoreOfSession ==
  \A i \in 1..Len(traces) :
    session.saved[i].clean
      => traces[i].integrityScore = Max(0, 1000 - session.saved[i].errors)

\* A recording with no tick and no error of its own saved with a score below 100.
CleanSessionScoredDown ==
  /\ obs.op = "stopRecordingAndSave"
  /\ session.saved[1].clean
  /\ session.saved[1].errors = 0
  /\ traces[1].data = << >>
  /\ traces[1].integrityScore = 999

(***************************************************************************)
(* Properties of the live queue.                                           *)
(***************************************************************************)
\* C16: between ticks the live queue holds PENDING and EXECUTING tasks only:
\* every task that became COMPLETED, REFUSED or FAILED in a tick was removed
\* from the queue by that tick.
C16_NoTerminalInQueue ==
  /\ \A i \in 1..Len(taskQueueRef) :
       taskQueueRef[i].status \in { "PENDING", "EXECUTING" }
  /\ TickRan =>
       \A i \in 1..Len(obs.executed) :
         obs.executed[i].status \in { "COMPLETED", "REFUSED", "FAILED" }
           => \A j \in 1..Len(taskQueueRef) : taskQueueRef[j].id /= obs.executed[i].id

\* C16 witness: a tick in which one task completed and an older one went on
\* executing has just ended; the completed task is gone, the other is queued.
C16_Witness ==
  /\ TickRan
  /\ \E i \in 1..Len(obs.executed) : obs.executed[i].status = "COMPLETED"
  /\ \E j \in 1..Len(taskQueueRef) :
       taskQueueRef[j].status = "EXECUTING" /\ taskQueueRef[j].startTime < obs.at
  /\ Len(taskQueueRef) < Len(obs.executed)

\* A tick in which a task was refused at the latency ceiling has just ended.
RefusedTaskRemoved ==
  /\ TickRan
  /\ \E i \in 1..Len(obs.executed) : obs.executed[i].status = "REFUSED"
  /\ \A i \in 1..Len(taskQueueRef) : taskQueueRef[i].status /= "REFUSED"

\* A tick in which a task failed has just ended.
FailedTaskRemoved ==
  /\ TickRan
  /\ \E i \in 1..Len(obs.executed) : obs.executed[i].status = "FAILED"
  /\ \A i \in 1..Len(taskQueueRef) : taskQueueRef[i].status /= "FAILED"

\* C17: no two tasks in the live queue have the same id.
C17_UniqueIds ==
  \A i, j \in 1..Len(taskQueueRef) :
    i /= j => taskQueueRef[i].id /= taskQueueRef[j].id

\* Two generations of the task T-1-1 queued together: startRecording set the tick
\* counter back to 0 while the first was executing.
SameIdTwice ==
  /\ TickRan
  /\ obs.tick = 1
  /\ obs.cfg.isRecording
  /\ \E i, j \in 1..Len(taskQueueRef) :
       /\ i < j
       /\ taskQueueRef[i].id = << "T", 1, 1 >>
       /\ taskQueueRef[j].id = << "T", 1, 1 >>
       /\ taskQueueRef[i].startTime < taskQueueRef[j].startTime

(***************************************************************************)
(* Properties of the advisory completions.                                 *)
(***************************************************************************)
\* A step of a completion: the only handlers that take a call out of flight.
ResultStep == inflight' /= inflight /\ ~TickStep

\* C18: the completion of a failed advisory call (a null policy, a null audit
\* report, an empty pathological list) changes nothing of the core: the
\* configuration, the phase, the queue, the history, the tick counter, the
\* trace state and the decision log stay as they are.
C18_FailureIsNoOp ==
  [][ (ResultStep /\ obs'.failed) =>
        UNCHANGED << config, phase, taskQueueRef, history, tickRef, lastAutopilotTick,
                     currentTraceRef, activeTraceDataRef, traces, decisionLog >> ]_vars

\* C18 witness: the five autopilot calls of ticks 10 to 50 and the pathological
\* call of tick 50 have all completed in failure, and tick 51 has run after them
\* on the initial configuration.
C18_Witness ==
  /\ TickRan
  /\ obs.tick = PATHOLOGICAL_PERIOD + 1
  /\ lastAutopilotTick = PATHOLOGICAL_PERIOD
  /\ inflight = [ autopilot |-> << >>, audit |-> 0, patho |-> 0 ]
  /\ decisionLog = << >>
  /\ obs.queued = << >>
  /\ config.isAutopilot
  /\ [config EXCEPT !.isAutopilot = FALSE] = INITIAL_CONFIG

\* A failed audit has just completed.
AuditFailed ==
  /\ obs.op = "auditResult"
  /\ obs.failed
  /\ decisionLog[1] = "SELF_HEALING_ACTIVATED"

\* An injected pathological task in the queue a tick reads.
PathologicalTaskQueued ==
  /\ TickRan
  /\ \E i \in 1..Len(obs.queued) : obs.queued[i].id = << "SYNTH", "p0" >>

\* C19: the decision log never holds more than 30 entries.
C19_DecisionLogCapped == Len(decisionLog) <= DECISION_LOG_CAP

\* The log at 31 entries: a self-healing entry put on top of a log the policy
\* entry had just cut to 30.
LogOverCap ==
  /\ obs.op = "autopilotResult"
  /\ Len(decisionLog) = DECISION_LOG_CAP + 1
  /\ decisionLog[1] = "SELF_HEALING_ACTIVATED"
  /\ decisionLog[2] = "TUNE"

(***************************************************************************)
(* Properties of the metrics snapshot and of the removal.                  *)
(***************************************************************************)
\* Tasks of the queue the last tick evaluated, by their status after its
\* execution pass.
ExecutedWith(statuses) ==
  { i \in 1..Len(obs.executed) : obs.executed[i].status \in statuses }

\* The snapshot's counters against the statuses after the execution pass: no
\* task enters a tick in a terminal state, so every terminal task became so in
\* the tick.
CountersMatchStatuses ==
  TickRan =>
    /\ \A i \in 1..Len(obs.queued) : ~IsTerminal(obs.queued[i])
    /\ LastMetrics.throughput =
         Cardinality(ExecutedWith({ "COMPLETED", "REFUSED", "FAILED" }))
    /\ LastMetrics.refusalCount = Cardinality(ExecutedWith({ "REFUSED" }))
    /\ LastMetrics.errorCount = Cardinality(ExecutedWith({ "FAILED" }))
    /\ LastMetrics.throughput >= LastMetrics.refusalCount + LastMetrics.errorCount

\* C21: the snapshot of every tick has throughput = the number of tasks that
\* reached COMPLETED, REFUSED or FAILED in the tick = the number of tasks the
\* tick removed from the queue, refusalCount = the number that became REFUSED,
\* errorCount = the number that became FAILED, and so throughput >=
\* refusalCount + errorCount.
C21_SnapshotCounts ==
  /\ CountersMatchStatuses
  /\ TickRan => LastMetrics.throughput = Len(obs.executed) - Len(taskQueueRef)

\* A tick that removed two tasks and reported a throughput of one.
RemovedMoreThanThroughput ==
  /\ TickRan
  /\ LastMetrics.throughput = 1
  /\ Len(obs.executed) - Len(taskQueueRef) = 2

\* C27: every task that is PENDING or EXECUTING after the admission and
\* execution passes of a tick is in the queue after the tick, in its place: the
\* queue the tick leaves is the evaluated queue without its terminal tasks.
C27_UnfinishedStay ==
  TickRan =>
    taskQueueRef = SelectSeq(obs.executed, LAMBDA t : ~IsTerminal(t))

\* The second generation of T-1-0, EXECUTING after the passes of the tick it
\* arrived in, is gone from the queue with the first generation, which completed.
UnfinishedTaskRemoved ==
  /\ TickRan
  /\ \E i, j \in 1..Len(obs.executed) :
       /\ i < j
       /\ obs.executed[i].id = obs.executed[j].id
       /\ obs.executed[i].status = "COMPLETED"
       /\ obs.executed[j].status = "EXECUTING"
       /\ \A k \in 1..Len(taskQueueRef) : taskQueueRef[k].id /= obs.executed[j].id


(***************************************************************************)
(* Properties of the task records.                                         *)
(***************************************************************************)
\* The status changes of the admission pass and of the execution pass.
AdmissionMoves == { << "PENDING", "EXECUTING" >>, << "PENDING", "REFUSED" >> }

ExecutionMoves ==
  { << "EXECUTING", "COMPLETED" >>, << "EXECUTING", "FAILED" >>,
    << "EXECUTING", "REFUSED" >> }

\* Two records of one task: all but the status is the same.
SameTask(a, b) ==
  /\ a.id = b.id
  /\ a.complexity = b.complexity
  /\ a.startTime = b.startTime
  /\ a.assignedNode = b.assignedNode

\* s is the head of r.
IsPrefix(s, r) == Len(s) <= Len(r) /\ SubSeq(r, 1, Len(s)) = s

\* What a tick does to the records: it reads the queue as the previous handler
\* left it, with the arrivals behind it as PENDING; each pass changes nothing but
\* the status, by one of its moves; the queue it leaves is made of records as
\* they are after the execution pass, none of them terminal.
TickKeepsRecords ==
  LET queued   == obs'.queued
      admitted == obs'.admitted
      executed == obs'.executed
  IN  /\ IsPrefix(taskQueueRef, queued)
      /\ \A i \in 1..Len(queued) :
           /\ i > Len(taskQueueRef) => queued[i].status = "PENDING"
           /\ SameTask(queued[i], admitted[i])
           /\ SameTask(admitted[i], executed[i])
           /\ \/ admitted[i].status = queued[i].status
              \/ << queued[i].status, admitted[i].status >> \in AdmissionMoves
           /\ \/ executed[i].status = admitted[i].status
              \/ << admitted[i].status, executed[i].status >> \in ExecutionMoves
      /\ \A k \in 1..Len(taskQueueRef') :
           /\ \E i \in 1..Len(executed) : executed[i] = taskQueueRef'[k]
           /\ ~IsTerminal(taskQueueRef'[k])

\* What any other handler does to them: nothing, or it empties the queue, or it
\* puts PENDING tasks behind the ones queued.
HandlerKeepsRecords ==
  \/ taskQueueRef' = taskQueueRef
  \/ taskQueueRef' = << >>
  \/ /\ IsPrefix(taskQueueRef, taskQueueRef')
     /\ \A k \in (Len(taskQueueRef) + 1)..Len(taskQueueRef') :
          taskQueueRef'[k].status = "PENDING"

\* C22: a task's record changes only by a legal status transition, PENDING to
\* EXECUTING or REFUSED in the admission pass, EXECUTING to COMPLETED, FAILED or
\* REFUSED in the execution pass; no task goes back to PENDING or leaves a
\* terminal state, and its id, complexity, startTime and assignedNode never
\* change once it is queued.
C22_LegalTransitions ==
  [][ IF TickStep THEN TickKeepsRecords ELSE HandlerKeepsRecords ]_vars

\* C22 witness: a tick that promoted its arrivals and failed the tasks of the
\* tick before, older than the ceiling, leaving the promoted ones queued.
C22_Witness ==
  /\ TickRan
  /\ \E i, j \in 1..Len(obs.queued) :
       /\ obs.queued[i].status = "EXECUTING"
       /\ obs.executed[i].status = "FAILED"
       /\ obs.queued[j].status = "PENDING"
       /\ obs.executed[j].status = "EXECUTING"
       /\ \E k \in 1..Len(taskQueueRef) : taskQueueRef[k] = obs.executed[j]

\* A tick that refused a task at admission and completed another.
RefusedAndCompleted ==
  /\ TickRan
  /\ \E i, j \in 1..Len(obs.queued) :
       /\ obs.queued[i].status = "PENDING"
       /\ obs.executed[i].status = "REFUSED"
       /\ obs.queued[j].status = "EXECUTING"
       /\ obs.executed[j].status = "COMPLETED"


(***************************************************************************)
(* Properties of the admission pass.                                       *)
(***************************************************************************)
\* Positions of the queue the last tick evaluated whose task was PENDING when
\* the admission pass began.
PendingAtAdmission == { i \in 1..Len(obs.queued) : IsPending(obs.queued[i]) }

\* The EXECUTING count measured before the promotions of the last tick.
ActiveAtAdmission == ExecutingCount(obs.queued)

\* C23: the admission decisions of one tick all use the EXECUTING count measured
\* before the tick's promotions: at or over concurrencyLimit no PENDING task is
\* promoted (all become REFUSED with retriesEnabled false, all stay PENDING with
\* it true); under the limit every PENDING task, however many, becomes EXECUTING.
C23_SnapshotAdmission ==
  TickRan =>
    \A i \in PendingAtAdmission :
      obs.admitted[i].status =
        IF ActiveAtAdmission >= obs.cfg.concurrencyLimit
          THEN (IF obs.cfg.retriesEnabled THEN "PENDING" ELSE "REFUSED")
          ELSE "EXECUTING"

\* C23 witness: one task EXECUTING under a limit of 2, and both arrivals of the
\* tick promoted, which leaves three EXECUTING.
C23_Witness ==
  /\ TickRan
  /\ obs.cfg.concurrencyLimit = 2
  /\ ActiveAtAdmission = 1
  /\ Cardinality(PendingAtAdmission) = 2
  /\ \A i \in PendingAtAdmission : obs.admitted[i].status = "EXECUTING"
  /\ ExecutingCount(obs.admitted) = 3

\* A tick at the limit that refused both of its arrivals.
AllRefusedAtLimit ==
  /\ TickRan
  /\ ~obs.cfg.retriesEnabled
  /\ ActiveAtAdmission >= obs.cfg.concurrencyLimit
  /\ Cardinality(PendingAtAdmission) = 2
  /\ \A i \in PendingAtAdmission : obs.admitted[i].status = "REFUSED"

\* A tick at the limit that kept both of its arrivals PENDING.
AllHeldAtLimit ==
  /\ TickRan
  /\ obs.cfg.retriesEnabled
  /\ ActiveAtAdmission >= obs.cfg.concurrencyLimit
  /\ Cardinality(PendingAtAdmission) = 2
  /\ \A i \in PendingAtAdmission : obs.admitted[i].status = "PENDING"


(***************************************************************************)
(* Properties of the policy merge.                                         *)
(***************************************************************************)
PolicyFields == { "cpuBudget", "latencyHardCeiling", "concurrencyLimit" }

\* A step of an autopilot completion, and one that received a policy.
AutopilotResultStep == Len(inflight'.autopilot) < Len(inflight.autopilot)

PolicyStep == AutopilotResultStep /\ ~obs'.failed

\* C24: a policy is applied to the configuration as one merge on the
\* configuration current at its arrival: all three limits come from the policy
\* at once, every other field keeps the value the handlers since the request
\* gave it (phaseTickCounter but for the reset of a phase shift the policy asks
\* for), and a tick reads the configuration whole, as the last handler left it.
C24_AtomicMerge ==
  [][ /\ PolicyStep =>
           /\ \A f \in PolicyFields : config'[f] = obs'.policy[f]
           /\ \A f \in (DOMAIN config \ PolicyFields) \ { "phaseTickCounter" } :
                config'[f] = config[f]
           /\ \/ config'.phaseTickCounter = config.phaseTickCounter
              \/ obs'.policy.shouldAdvancePhase /\ config'.phaseTickCounter = 0
      /\ TickStep => obs'.cfg = config ]_vars

\* C24 witness: the autopilot was switched on before the first tick and off
\* after the call of tick 10; tick 11 counted a phase tick; the policy then
\* arrived, and the configuration holds its three limits and the count.
C24_Witness ==
  /\ obs.op = "autopilotResult"
  /\ ~obs.failed
  /\ ~obs.policy.shouldAdvancePhase
  /\ obs.asked.config.isAutopilot
  /\ obs.asked.config.phaseTickCounter = 0
  /\ ~config.isAutopilot
  /\ config.phaseTickCounter = 1
  /\ \A f \in PolicyFields :
       config[f] = obs.policy[f] /\ config[f] /= obs.asked.config[f]

\* C25: a policy that arrives after the autopilot was switched off, or after
\* the phase changed, is applied all the same: its three limits overwrite the
\* current ones; and no advisory call in flight is cancelled or dropped: a call
\* leaves flight only by its own completion.
C25_StaleResultApplied ==
  [][ /\ PolicyStep => \A f \in PolicyFields : config'[f] = obs'.policy[f]
      /\ AutopilotResultStep =>
           /\ Len(inflight'.autopilot) = Len(inflight.autopilot) - 1
           /\ obs'.op = "autopilotResult"
      /\ inflight'.audit < inflight.audit =>
           /\ inflight'.audit = inflight.audit - 1
           /\ obs'.op = "auditResult"
      /\ inflight'.patho < inflight.patho =>
           /\ inflight'.patho = inflight.patho - 1
           /\ obs'.op = "pathologicalResult" ]_vars

\* C25 witness: a policy asked for in BASE with the autopilot on has been applied
\* with the autopilot off and the phase moved by the user to OBSERVATION_COLLAPSE.
C25_Witness ==
  /\ obs.op = "autopilotResult"
  /\ ~obs.failed
  /\ obs.asked.config.isAutopilot
  /\ obs.asked.phase = "BASE"
  /\ ~config.isAutopilot
  /\ phase = "OBSERVATION_COLLAPSE"
  /\ ~obs.policy.shouldAdvancePhase
  /\ config.cpuBudget = obs.policy.cpuBudget
  /\ config.latencyHardCeiling = obs.policy.latencyHardCeiling
  /\ config.concurrencyLimit = obs.policy.concurrencyLimit
  /\ config.cpuBudget /= INITIAL_CONFIG.cpuBudget


(***************************************************************************)
(* Properties of the start of a replay.                                    *)
(***************************************************************************)
\* A step of startReplay for an id the trace collection holds.
StartReplayStep ==
  /\ obs'.op = "startReplay"
  /\ obs.op /= "startReplay" \/ activeTraceDataRef' /= activeTraceDataRef

\* The arrivals the trace recorded for tick 1.
FirstRecordedArrivals(trace) ==
  IF Len(trace.data) >= 1 /\ trace.data[1].tick = 1
    THEN trace.data[1].incomingTasks ELSE << >>

\* C26: immediately after startReplay(id), for an id in the trace collection, the
\* tick counter is 0, the live queue and the metrics history are empty, the
\* phase is the one the trace recorded, isReplaying is true, isRecording is
\* false and activeTraceId = id; the next tick has index 1 and takes its
\* arrivals from that trace.
C26_ReplayStart ==
  [][ /\ StartReplayStep =>
           /\ \E i \in 1..Len(traces) :
                /\ traces[i] = activeTraceDataRef'
                /\ \A j \in 1..(i - 1) : traces[j].id /= traces[i].id
           /\ tickRef' = 0
           /\ taskQueueRef' = << >>
           /\ history' = << >>
           /\ phase' = activeTraceDataRef'.phase
           /\ config'.isReplaying
           /\ ~config'.isRecording
           /\ config'.activeTraceId = activeTraceDataRef'.id
      /\ (obs.op = "startReplay" /\ TickStep) =>
           /\ tickRef' = 1
           /\ obs'.replay
           /\ obs'.incoming = FirstRecordedArrivals(activeTraceDataRef)
           /\ Len(obs'.queued) = Len(obs'.incoming) ]_vars

\* C26 witness: a replay started right after the one recorded tick, whose task
\* was still EXECUTING; its first tick is the second tick run, it has index 1,
\* the history holds its snapshot alone, and the queue it evaluated held the
\* arrival the trace recorded for tick 1 and nothing else.
C26_Witness ==
  /\ ReplayTickRan
  /\ obs.tick = 1
  /\ budget.ticks = 2
  /\ Len(history) = 1
  /\ Len(obs.incoming) = 1
  /\ obs.incoming = activeTraceDataRef.data[1].incomingTasks
  /\ Len(obs.queued) = 1
  /\ obs.queued[1].startTime = obs.at
  /\ obs.phase = activeTraceDataRef.phase
  /\ obs.cfg.activeTraceId = activeTraceDataRef.id
  /\ ~obs.cfg.isRecording



(***************************************************************************)
(* Properties of the arrivals during replay.                               *)
(***************************************************************************)
\* The tasks a step adds to the live queue: what a tick appends before its
\* passes, what another handler leaves behind the tasks queued before it.
Added ==
  IF TickStep
    THEN SubSeq(obs'.queued, Len(taskQueueRef) + 1, Len(obs'.queued))
    ELSE IF IsPrefix(taskQueueRef, taskQueueRef')
      THEN SubSeq(taskQueueRef', Len(taskQueueRef) + 1, Len(taskQueueRef'))
      ELSE << >>

\* The arrivals the active trace holds for a tick index.
RecordedArrivals(tick) ==
  IF ReplayFound(activeTraceDataRef.data, tick)
    THEN ReplayStep(activeTraceDataRef.data, tick).incomingTasks
    ELSE << >>

\* C29: while isReplaying is true every task added to the live queue is an
\* arrival of the active trace for the current tick index; no synthetic or
\* pathological task enters the queue during replay, also when the request was
\* issued by an earlier tick and its result arrives after startReplay.
C29_ReplayArrivalsOnly ==
  [][ (config.isReplaying /\ activeTraceDataRef /= NoTrace) =>
        /\ Len(Added) = Len(RecordedArrivals(tickRef'))
        /\ \A i \in 1..Len(Added) :
             /\ Added[i].id = RecordedArrivals(tickRef')[i].id
             /\ Added[i].complexity = RecordedArrivals(tickRef')[i].complexity ]_vars

\* The pathological task asked for at tick 50 is in the queue the first tick of
\* a replay evaluates, behind no task of the trace.
SyntheticTaskInReplay ==
  /\ ReplayTickRan
  /\ obs.tick = 1
  /\ obs.queued /= << >>
  /\ obs.queued[1].id = << "SYNTH", "p0" >>
  /\ obs.admitted[1].status = "EXECUTING"


(***************************************************************************)
(* Properties of the autopilot cadence.                                    *)
(***************************************************************************)
\* C30: while isAutopilot stays true, autopilotStep is requested at least once in
\* every window of 10 consecutive ticks, also in the ticks that follow a
\* startRecording or a startReplay: the ticks run with the autopilot on since
\* its last request, or since it was switched on, never number 10.
C30_AutopilotCadence == session.quiet < AUTOPILOT_INTERVAL

\* Ten ticks in a row with the autopilot on and no request: the request of tick
\* 10 was followed by a reset of the tick counter, and the counter is at 10 again.
SilentWindow ==
  /\ TickRan
  /\ obs.tick = AUTOPILOT_INTERVAL
  /\ lastAutopilotTick = AUTOPILOT_INTERVAL
  /\ obs.cfg.isAutopilot
  /\ session.quiet = AUTOPILOT_INTERVAL
  /\ Len(inflight.autopilot) = 1

\* The same after a startReplay: ten ticks past the end of the replayed trace.
SilentWindowAfterReplay ==
  /\ TickRan
  /\ obs.tick = AUTOPILOT_INTERVAL
  /\ obs.cfg.isAutopilot
  /\ session.quiet = AUTOPILOT_INTERVAL
  /\ activeTraceDataRef /= NoTrace
  /\ Len(history) = AUTOPILOT_INTERVAL


(***************************************************************************)
(* Liveness of the tasks.                                                  *)
(***************************************************************************)
\* The last tick evaluated a queue that held the task.
Entered(id) ==
  TickRan /\ \E k \in 1..Len(obs.queued) : obs.queued[k].id = id

\* The last tick left the task COMPLETED, REFUSED or FAILED and removed it.
Finished(id) ==
  /\ TickRan
  /\ \E k \in 1..Len(obs.executed) :
       obs.executed[k].id = id /\ IsTerminal(obs.executed[k])
  /\ \A k \in 1..Len(taskQueueRef) : taskQueueRef[k].id /= id

\* The clock is never stopped by its bound with a task queued.
ClockOutlastsQueue == budget.ticks = MaxLiveTicks => taskQueueRef = << >>

StillExecuting ==
  /\ TickRan
  /\ \E k \in 1..Len(obs.queued) :
       /\ obs.queued[k].status = "EXECUTING"
       /\ obs.executed[k].status = "EXECUTING"

\* Tasks held PENDING by a tick at the limit.
HeldByBackPressure ==
  /\ TickRan
  /\ obs.cfg.retriesEnabled
  /\ \E k \in 1..Len(obs.queued) :
       /\ obs.queued[k].status = "PENDING"
       /\ obs.executed[k].status = "PENDING"

====
